---- MODULE Spec2Model ----
(***************************************************************************)
(* A model of the UWS node agent: the service registry                     *)
(* (service_registry.py), the template launcher (template_manager.py),     *)
(* the port allocator (container_operations.py) and the reconciliation     *)
(* engine (container_recovery.py), together with the container runtime     *)
(* they talk to.                                                           *)
(*                                                                         *)
(* Names (service ids, container names) are sequences of tokens: the       *)
(* f-string "{template}_instance_{n}" is the sequence                      *)
(* <<template, "instance", str(n)>>, the "_" being the token separator.    *)
(***************************************************************************)
EXTENDS Integers, Sequences, FiniteSets, TLC

\* ------------------------------------------------------------------------
\* Bounds of the model
\* ------------------------------------------------------------------------
MaxInstance == 3     \* largest instance_id a direct register_service call passes
MaxLaunches == 2     \* launch_template_container calls per behaviour
MaxContainers == 3   \* container ids the runtime hands out per behaviour
MaxFaults == 1       \* runtime calls that raise an error within one handler run
MaxInvocations == 2  \* graceful_shutdown invocations per process
MaxThreads == 2      \* concurrent launch_template_container calls
MaxRelay == 2        \* bytes the shell writes, and messages the client sends, in a session
MaxMutations == 2    \* registry calls of other requests during one iteration

\* ------------------------------------------------------------------------
\* Values
\* ------------------------------------------------------------------------
\* Python's None for the integer-valued optional fields (container_id,
\* instance_id, port); container ids, instance ids and ports are >= 1.
None == -1
\* None (or the empty string) for a container name.
NoName == <<>>

\* Python truthiness of an optional integer-valued field: `if container_id:`
Truthy(x) == x # None /\ x # 0
\* Python truthiness of a name: `if container_name:`
TruthyName(n) == n # NoName

\* TEMPLATE_CONFIGS: two of the five configured templates.
Templates == {"buckets", "db"}
\* A name that is not a key of TEMPLATE_CONFIGS.
UnknownTemplate == "nope"
PortLimit == 65535

base_port_preference(template) ==
    IF template = "buckets" THEN 8000 ELSE 8010

\* str(n) of the f-strings, for the instance numbers the model reaches.
DecimalStr(n) ==
    CASE n = 0 -> "0" [] n = 1 -> "1" [] n = 2 -> "2" [] n = 3 -> "3"
      [] n = 4 -> "4" [] n = 5 -> "5" [] n = 6 -> "6" [] n = 7 -> "7"
      [] n = 8 -> "8" [] n = 9 -> "9" [] OTHER -> "big"

\* f"{template}_instance_{instance_id}": container_name and service_id.
InstanceName(template, instance_id) ==
    <<template, "instance", DecimalStr(instance_id)>>

\* Service ids a caller of the registry API passes directly.
DirectIds == {<<"svc", "a">>, <<"svc", "b">>, <<"svc", "c">>}

\* Container states of the runtime.
ContainerStatuses == {"running", "exited", "paused"}

VARIABLES
    services,          \* registry.services: insertion-ordered dict, as a sequence of entries
    registry_file,     \* service_registry.json as it is on disk
    containers,        \* the runtime: container id -> [name, status, port]
    next_cid,          \* next container id the runtime hands out
    host_ports,        \* port ranges <<lo, hi>> bound on the host by unmanaged processes
    docker_available,  \* DOCKER_AVAILABLE, fixed at import
    result,            \* what the last handler returned (and what it did)
    assigned,          \* history: <<template, instance_id, port>> of each registered launch
    threads,           \* concurrent launch_template_container calls: locals and position
    called,            \* graceful_shutdown._called is set
    stack,             \* graceful_shutdown invocations on the main thread's stack, top last
    phase,             \* process life cycle: serving, exiting, exited
    invocations,       \* number of graceful_shutdown invocations so far
    teardowns,         \* number of invocations that went past the guard
    session            \* one terminal session: handle_terminal, its two loops, both ends

vars == <<services, registry_file, containers, next_cid, host_ports, docker_available, result,
          assigned, threads, called, stack, phase, invocations, teardowns, session>>

registryVars == <<services, registry_file>>
runtimeVars == <<containers, next_cid, host_ports, docker_available>>
launchVars == <<assigned, threads>>
shutdownVars == <<called, stack, phase, invocations, teardowns>>
terminalVars == <<session>>

\* ------------------------------------------------------------------------
\* Small helpers
\* ------------------------------------------------------------------------
MaxOf(S) == CHOOSE m \in S : \A x \in S : x <= m

Range(s) == {s[i] : i \in DOMAIN s}

\* The element of a one-element set.
The(S) == CHOOSE x \in S : TRUE

\* What a call returned, where a claim is about it: None, a list of service
\* ids, or an error that names the templates.
NoReturn == [kind |-> "None", ids |-> <<>>, names |-> {}]

\* No connection to the terminal endpoint yet: the client is connected and
\* handle_terminal has not run.  `sent` is what the client has been sent,
\* `exec_out` the bytes the shell wrote that are not read yet, `read` the
\* bytes container_to_ws read, `ws_in` the client's messages not received
\* yet, `got` the messages ws_to_container received, `exec_in` the bytes
\* written to the shell, `printed` what the loops print when they break.
NoSession ==
    [transport |-> "starlette", container_id |-> None, fault |-> "none",
     handler |-> "idle", container_to_ws |-> "not_started",
     ws_to_container |-> "not_started", exec_socket |-> "none",
     exec_created |-> FALSE, client |-> "connected", websocket |-> "open",
     sent |-> <<>>, exec_out |-> <<>>, read |-> <<>>,
     ws_in |-> <<>>, got |-> <<>>, exec_in |-> <<>>, printed |-> {}]

\* The shape of `result`; every handler fills in what applies.
NoResult ==
    [op |-> "none", kind |-> "none", template |-> "", key |-> NoName, value |-> None,
     recovered |-> 0, failed |-> 0, total |-> 0,
     results |-> <<>>, calls |-> {}, faults |-> {}, returned |-> NoReturn]

\* ------------------------------------------------------------------------
\* ServiceRegistry (service_registry.py)
\* ------------------------------------------------------------------------
\* `service_id in self.services`
Keys(svcs) == {svcs[i].service_id : i \in DOMAIN svcs}

\* self.services.get(service_id), for a present id
get_service(svcs, service_id) ==
    svcs[CHOOSE i \in DOMAIN svcs : svcs[i].service_id = service_id]

NewEntry(service_id, template, container_name, port, instance_id, container_id) ==
    [service_id |-> service_id,
     template |-> template,
     container_name |-> container_name,
     container_id |-> container_id,
     port |-> port,
     instance_id |-> instance_id,
     status |-> "running"]

\* self.services[service_id] = {...}: a present key keeps its position and
\* gets the new value, a new key goes last.
register_service(svcs, service_id, template, container_name, port, instance_id, container_id) ==
    LET e == NewEntry(service_id, template, container_name, port, instance_id, container_id)
    IN  IF service_id \in Keys(svcs)
        THEN [i \in DOMAIN svcs |-> IF svcs[i].service_id = service_id THEN e ELSE svcs[i]]
        ELSE Append(svcs, e)

unregister_service_skipped(svcs, service_id) == svcs

unregister_service_popping(svcs, service_id) ==
    IF service_id \in Keys(svcs)
    THEN SelectSeq(svcs, LAMBDA e : e.service_id # service_id)
    ELSE SubSeq(svcs, 1, Len(svcs) - 1)

unregister_service(svcs, service_id) ==
    IF service_id \in Keys(svcs)
    THEN SelectSeq(svcs, LAMBDA e : e.service_id # service_id)
    ELSE svcs

\* self.services[service_id].update(kwargs); kwargs is a record of fields.
update_service_everywhere(svcs, service_id, kwargs) ==
    IF service_id \in Keys(svcs)
    THEN [i \in DOMAIN svcs |->
            [f \in DOMAIN svcs[i] \cup DOMAIN kwargs |->
                IF f \in DOMAIN kwargs THEN kwargs[f] ELSE svcs[i][f]]]
    ELSE svcs

update_service(svcs, service_id, kwargs) ==
    IF service_id \in Keys(svcs)
    THEN [i \in DOMAIN svcs |->
            IF svcs[i].service_id = service_id
            THEN [f \in DOMAIN svcs[i] \cup DOMAIN kwargs |->
                    IF f \in DOMAIN kwargs THEN kwargs[f] ELSE svcs[i][f]]
            ELSE svcs[i]]
    ELSE svcs

\* The return value of update_service.
update_service_ok(svcs, service_id) == service_id \in Keys(svcs)

\* list_services(template): the entries of one template, in dict order.
list_services(svcs, template) ==
    SelectSeq(svcs, LAMBDA e : e.template = template)

\* [service["port"] for service in ... if service.get("port")]
get_used_ports(svcs) ==
    {svcs[i].port : i \in {j \in DOMAIN svcs : Truthy(svcs[j].port)}}

\* The loop of get_next_instance_id over the first n entries.
RECURSIVE MaxInstanceLoop(_, _)
MaxInstanceLoop(entries, n) ==
    IF n = 0 THEN 0
    ELSE LET max_instance == MaxInstanceLoop(entries, n - 1)
             instance_id == entries[n].instance_id
         IN  IF instance_id # None /\ instance_id > max_instance
             THEN instance_id
             ELSE max_instance

get_next_instance_id_by_count(svcs, template) ==
    Len(list_services(svcs, template)) + 1

get_next_instance_id(svcs, template) ==
    LET template_services == list_services(svcs, template)
    IN  IF template_services = <<>>
        THEN 1
        ELSE MaxInstanceLoop(template_services, Len(template_services)) + 1

\* self.services = {}
clear_all(svcs) == <<>>

\* ------------------------------------------------------------------------
\* The registry file (service_registry.json)
\* ------------------------------------------------------------------------
\* The file as a process finds it: missing, text, a file open() cannot read,
\* or bytes that are not text in the locale's encoding.  Text is what
\* json.dump wrote: the entries in dict order, and the closing brace when
\* the write reached its end.
FileKinds == {"missing", "text", "unreadable", "undecodable"}

NoFile == [kind |-> "missing", entries |-> <<>>, complete |-> FALSE]

DamagedFile(kind) == [kind |-> kind, entries |-> <<>>, complete |-> FALSE]

\* json.dump(self.services, f, indent=2) run to its end.
json_dump(svcs) == [kind |-> "text", entries |-> svcs, complete |-> TRUE]

\* What open(file, "w") and a write that stopped after k entries leave.
PartialWrite(svcs, k) ==
    [kind |-> "text", entries |-> SubSeq(svcs, 1, k), complete |-> FALSE]

\* json.load(f): the mapping read, or the error raised.  f.read() decodes
\* the bytes first; a document without its end does not parse.
json_load(file) ==
    IF file.kind = "undecodable"
    THEN [value |-> <<>>, error |-> "UnicodeDecodeError"]
    ELSE IF ~file.complete
    THEN [value |-> <<>>, error |-> "JSONDecodeError"]
    ELSE [value |-> file.entries, error |-> "none"]

\* _load_registry: {} when the file does not exist, and when open or
\* json.load raises JSONDecodeError or IOError; any other error leaves the
\* constructor.
load_registry(file) ==
    IF file.kind = "missing"
    THEN [services |-> <<>>, raised |-> FALSE]
    ELSE IF file.kind = "unreadable"
    THEN [services |-> <<>>, raised |-> FALSE]
    ELSE LET loaded == json_load(file)
         IN  IF loaded.error = "none"
             THEN [services |-> loaded.value, raised |-> FALSE]
             ELSE IF loaded.error \in {"JSONDecodeError", "IOError"}
             THEN [services |-> <<>>, raised |-> FALSE]
             ELSE [services |-> <<>>, raised |-> TRUE]

\* How one _save_registry call can go: the document is written; open()
\* raises IOError and the file is left as it was; or a write raises IOError
\* after k entries.  The IOError is caught and logged.
SaveOutcomes(svcs) ==
    {<<"ok", 0>>, <<"open_failed", 0>>} \cup {<<"write_failed", k>> : k \in 0..Len(svcs)}

save_registry_skipped(file, svcs, outcome) == file

save_registry(file, svcs, outcome) ==
    CASE outcome[1] = "ok" -> json_dump(svcs)
      [] outcome[1] = "open_failed" -> file
      [] outcome[1] = "write_failed" -> PartialWrite(svcs, outcome[2])

\* The saves of one registry call, in order: docs[i] is self.services at the
\* i-th _save_registry.
RECURSIVE SaveAll(_, _, _, _)
SaveAll(file, docs, outcomes, n) ==
    IF n = 0 THEN file
    ELSE The({save_registry(prev, docs[n], outcomes[n]) :
                 prev \in {SaveAll(file, docs, outcomes, n - 1)}})

OutcomeSeqs(docs) ==
    {outcomes \in [DOMAIN docs -> UNION {SaveOutcomes(docs[i]) : i \in DOMAIN docs}] :
        \A i \in DOMAIN docs : outcomes[i] \in SaveOutcomes(docs[i])}

\* The file after a handler none of whose saves failed: every change of
\* self.services is followed by _save_registry.
SavedAfter(svcs) ==
    IF svcs = services THEN registry_file ELSE json_dump(svcs)

\* ------------------------------------------------------------------------
\* The container runtime (docker client), as the code uses it
\* ------------------------------------------------------------------------
\* client.containers.get(container_id) finds a container
FoundById(rt, container_id) == container_id \in DOMAIN rt

\* The containers client.containers.get(container_name) can return
\* (container names are unique in the runtime).
ByName(rt, container_name) == {c \in DOMAIN rt : rt[c].name = container_name}

\* Host ports published by the containers client.containers.list() returns
\* (running containers only).
PublishedPorts(rt) ==
    {rt[c].port : c \in {d \in DOMAIN rt : rt[d].status = "running" /\ rt[d].port # None}}

RemoveContainer(rt, c) == [d \in DOMAIN rt \ {c} |-> rt[d]]

AddContainer(rt, c, name, status, port) ==
    [d \in DOMAIN rt \cup {c} |->
        IF d = c THEN [name |-> name, status |-> status, port |-> port] ELSE rt[d]]

\* A runtime call that raises an error other than NotFound is a fault point
\* <<call site, key>>; the key is the service (or container) being processed.
RECURSIVE UpTo(_, _)
UpTo(points, k) ==
    IF k = 0 THEN {{}}
    ELSE LET smaller == UpTo(points, k - 1)
         IN  smaller \cup {F \cup {x} : F \in smaller, x \in points}

\* The fault sets one handler run may meet at the given call sites.
FaultSets(sites, keys) == UpTo(sites \X keys, MaxFaults)

\* ------------------------------------------------------------------------
\* ServiceRegistry.cleanup_dead_services
\* ------------------------------------------------------------------------
\* The first loop, over the first n items of self.services: refresh the
\* status of the entries whose container is found, collect the entries whose
\* container is NotFound; any other error escapes the loop.
\* The body of that loop for the n-th item.
ReapOne_without_id_is_dead(prev, rt, site, faults, n) ==
    LET service == prev.services[n]
        service_id == service.service_id
        container_id == service.container_id
    IN  IF prev.raised THEN prev
        ELSE IF <<site, service_id>> \in faults
             THEN [prev EXCEPT !.raised = TRUE]
        ELSE IF Truthy(container_id) /\ FoundById(rt, container_id)
             THEN [prev EXCEPT !.services =
                      update_service(@, service_id, [status |-> rt[container_id].status])]
        ELSE [prev EXCEPT !.dead = Append(@, service_id)]

ReapOne(prev, rt, site, faults, n) ==
    LET service == prev.services[n]
        service_id == service.service_id
        container_id == service.container_id
    IN  IF prev.raised \/ ~Truthy(container_id) THEN prev
        ELSE IF <<site, service_id>> \in faults
             THEN [prev EXCEPT !.raised = TRUE]
        ELSE IF FoundById(rt, container_id)
             THEN [prev EXCEPT !.services =
                      update_service(@, service_id, [status |-> rt[container_id].status])]
        ELSE [prev EXCEPT !.dead = Append(@, service_id)]

RECURSIVE ReapLoop(_, _, _, _, _)
ReapLoop(svcs, rt, site, faults, n) ==
    IF n = 0 THEN [services |-> svcs, dead |-> <<>>, raised |-> FALSE]
    ELSE The({ReapOne(prev, rt, site, faults, n) :
                 prev \in {ReapLoop(svcs, rt, site, faults, n - 1)}})

RECURSIVE UnregisterAll(_, _, _)
UnregisterAll(svcs, dead, n) ==
    IF n = 0 THEN svcs
    ELSE The({unregister_service(prev, dead[n]) :
                 prev \in {UnregisterAll(svcs, dead, n - 1)}})

\* Returns the registry afterwards, the ids removed, and whether an error
\* escaped the call.
cleanup_dead_services(svcs, rt, site, faults) ==
    IF ~docker_available
    THEN [services |-> svcs, dead |-> <<>>, raised |-> FALSE]
    ELSE The({IF loop.raised
              THEN [services |-> loop.services, dead |-> <<>>, raised |-> TRUE]
              ELSE [services |-> UnregisterAll(loop.services, loop.dead, Len(loop.dead)),
                    dead |-> loop.dead, raised |-> FALSE] :
                 loop \in {ReapLoop(svcs, rt, site, faults, Len(svcs))}})

\* cleanup_dead_services has no return statement: it returns None.
cleanup_dead_services_returned(reap) == NoReturn

\* self.services at each _save_registry of one cleanup_dead_services call
\* that no runtime error interrupts: one save per update_service of an entry
\* whose container was found, then one per unregister_service of a dead one.
cleanup_saves(svcs, rt) ==
    IF ~docker_available THEN <<>>
    ELSE LET found == SelectSeq([n \in DOMAIN svcs |-> n],
                                LAMBDA n : /\ Truthy(svcs[n].container_id)
                                           /\ FoundById(rt, svcs[n].container_id))
             loop == ReapLoop(svcs, rt, "reap", {}, Len(svcs))
         IN  [i \in DOMAIN found |-> ReapLoop(svcs, rt, "reap", {}, found[i]).services]
                \o [k \in DOMAIN loop.dead |->
                        UnregisterAll(loop.services, loop.dead, k)]

\* ------------------------------------------------------------------------
\* Port allocator (container_operations.py)
\* ------------------------------------------------------------------------
\* The bind probe: a port is bindable unless a process holds it, an
\* unmanaged one or the proxy of a running container that publishes it.
HostBound(port) == \E r \in host_ports : r[1] <= port /\ port <= r[2]

is_port_available(rt, port) ==
    ~HostBound(port) /\ port \notin PublishedPorts(rt)

\* The ports the operating system may hand out for bind(("", 0)).
EphemeralPorts == {32768, 32769}

\* s.bind(("", 0)); s.getsockname()[1]: any ephemeral port nobody holds.
OsAssignedPorts(rt) == {p \in EphemeralPorts : is_port_available(rt, p)}

\* port += 1, repeated while the bind probe fails inside one range of
\* host-bound ports: the loop leaves the range at the port after its end.
PortAfter(port) ==
    IF HostBound(port)
    THEN 1 + MaxOf({r[2] : r \in {q \in host_ports : q[1] <= port /\ port <= q[2]}})
    ELSE port + 1

RECURSIVE ScanPorts_stopping_early(_, _, _)
ScanPorts_stopping_early(rt, used_ports, port) ==
    IF port \in used_ports \/ ~is_port_available(rt, port)
    THEN IF PortAfter(port) >= PortLimit
         THEN OsAssignedPorts(rt)
         ELSE ScanPorts_stopping_early(rt, used_ports, PortAfter(port))
    ELSE {port}

\* The while loop of get_free_port from `port` on: the set of ports it may
\* return (one port, unless the scan passes PortLimit).
RECURSIVE ScanPorts(_, _, _)
ScanPorts(rt, used_ports, port) ==
    IF port \in used_ports \/ ~is_port_available(rt, port)
    THEN IF PortAfter(port) > PortLimit
         THEN OsAssignedPorts(rt)
         ELSE ScanPorts(rt, used_ports, PortAfter(port))
    ELSE {port}

\* get_free_port(start_port): the registry after its cleanup, whether the
\* cleanup raised, and the ports it may return.
FreePortAfter(reap, rt, start_port, faults) ==
    LET registered == get_used_ports(reap.services)
        used_ports ==
            IF docker_available /\ <<"port_list", NoName>> \notin faults
            THEN registered \cup PublishedPorts(rt)
            ELSE registered
    IN  [services |-> reap.services,
         raised |-> reap.raised,
         ports |-> IF reap.raised THEN {}
                   ELSE The({ScanPorts(rt, used, start_port) : used \in {used_ports}})]

get_free_port(svcs, rt, start_port, faults) ==
    The({FreePortAfter(reap, rt, start_port, faults) :
            reap \in {cleanup_dead_services(svcs, rt, "port_reap", faults)}})

\* ------------------------------------------------------------------------
\* Template launcher (template_manager.py): launch_template_container
\* ------------------------------------------------------------------------
\* A call of launch_template_container is a record of its locals and its
\* position `pc`; the steps below take the registry, the runtime and the
\* call's locals and give them back.  `out` is how the call ended.
NewCall(template) ==
    [pc |-> "check", template |-> template, instance_id |-> None,
     service_id |-> NoName, container_name |-> NoName,
     assigned_port |-> None, container |-> None, out |-> "running", steps |-> {}]

IdleCall == [NewCall(UnknownTemplate) EXCEPT !.pc = "idle"]

World(svcs, rt, cid, call) ==
    [services |-> svcs, containers |-> rt, next_cid |-> cid, call |-> call]

\* list(TEMPLATE_CONFIGS.keys())
get_available_templates == Templates

\* The cleanup_dead_services of a launch, run before the template is looked at.
LaunchCheck_reaping_first(w, faults) ==
    The({IF reap.raised
         THEN [w EXCEPT !.services = reap.services,
                        !.call.steps = @ \cup {"cleanup_dead_services"},
                        !.call.pc = "done", !.call.out = "raised"]
         ELSE IF w.call.template \notin Templates
         THEN [w EXCEPT !.services = reap.services,
                        !.call.steps = @ \cup {"cleanup_dead_services"},
                        !.call.pc = "done", !.call.out = "template_not_found"]
         ELSE [w EXCEPT !.services = reap.services,
                        !.call.steps = @ \cup {"cleanup_dead_services"},
                        !.call.pc = "get_id"] :
            reap \in {cleanup_dead_services(w.services, w.containers,
                                            "launch_reap", faults)}})

\* The template check and the first cleanup_dead_services.
LaunchCheck(w, faults) ==
    IF w.call.template \notin Templates
    THEN [w EXCEPT !.call.pc = "done", !.call.out = "template_not_found"]
    ELSE The({IF reap.raised
              THEN [w EXCEPT !.services = reap.services,
                             !.call.steps = @ \cup {"cleanup_dead_services"},
                             !.call.pc = "done", !.call.out = "raised"]
              ELSE [w EXCEPT !.services = reap.services,
                             !.call.steps = @ \cup {"cleanup_dead_services"},
                             !.call.pc = "get_id"] :
                 reap \in {cleanup_dead_services(w.services, w.containers,
                                                 "launch_reap", faults)}})

\* What the call returns to its caller, where a claim is about it: the
\* error that names the configured templates.
LaunchReturned(call) ==
    IF call.out = "template_not_found"
    THEN [kind |-> "error", ids |-> <<>>, names |-> get_available_templates]
    ELSE NoReturn

\* instance_id = registry.get_next_instance_id(template), and the names
\* derived from it (no custom instance name).
LaunchGetId(w) ==
    LET instance_id == get_next_instance_id(w.services, w.call.template)
    IN  [w EXCEPT !.call.instance_id = instance_id,
                  !.call.container_name = InstanceName(w.call.template, instance_id),
                  !.call.service_id = InstanceName(w.call.template, instance_id),
                  !.call.pc = "get_port"]

\* get_free_port(preferred_port), as this call runs it.
LaunchPorts(w, faults) ==
    get_free_port(w.services, w.containers,
                  base_port_preference(w.call.template), faults)

\* The values get_free_port may return to this call; None when it raises
\* (its cleanup raised, or the operating system has no port to give).
LaunchPortChoices(w, faults) ==
    LET free == LaunchPorts(w, faults)
    IN  IF free.raised \/ free.ports = {} THEN {None} ELSE free.ports

\* assigned_port = get_free_port(preferred_port), which returned `port`.
LaunchGetPort(w, faults, port) ==
    LET free == LaunchPorts(w, faults)
    IN  IF port = None
        THEN [w EXCEPT !.services = free.services,
                       !.call.steps = @ \cup {"get_free_port"},
                       !.call.pc = "done", !.call.out = "raised"]
        ELSE [w EXCEPT !.services = free.services,
                       !.call.steps = @ \cup {"get_free_port"},
                       !.call.assigned_port = port, !.call.pc = "setup"]

\* The runtime can create and start the container: the name is not taken,
\* the port is bindable, and it has an id to hand out.
CanCreate(w) ==
    /\ ByName(w.containers, w.call.container_name) = {}
    /\ w.call.assigned_port # None
    /\ is_port_available(w.containers, w.call.assigned_port)
    /\ w.next_cid <= MaxContainers

\* result = setup_fastapi_container(**setup_config): builds the image and
\* runs the container; `ok` is whether it reports success.
setup_fastapi_container(w, ok) ==
    IF ok /\ CanCreate(w)
    THEN [w EXCEPT !.containers = AddContainer(@, w.next_cid, w.call.container_name,
                                               "running", w.call.assigned_port),
                   !.next_cid = @ + 1,
                   !.call.container = w.next_cid,
                   !.call.steps = @ \cup {"setup_fastapi_container"},
                   !.call.pc = "register"]
    ELSE [w EXCEPT !.call.steps = @ \cup {"setup_fastapi_container"},
                   !.call.pc = "done", !.call.out = "failed"]

\* registry.register_service(...) after a reported success; the result of
\* setup_fastapi_container carries no container_id.
LaunchRegister(w) ==
    [w EXCEPT !.services = register_service(@, w.call.service_id, w.call.template,
                                            w.call.container_name, w.call.assigned_port,
                                            w.call.instance_id, None),
              !.call.steps = @ \cup {"register_service"},
              !.call.pc = "discover"]

\* client.containers.get(container_name) and the update of container_id;
\* any error is logged and ignored.
LaunchDiscover(w, faults) ==
    LET found == ByName(w.containers, w.call.container_name)
        fails == ~docker_available
                 \/ <<"discover", NoName>> \in faults
                 \/ found = {}
    IN  IF fails
        THEN [w EXCEPT !.call.pc = "done", !.call.out = "success"]
        ELSE [w EXCEPT !.services = update_service(@, w.call.service_id,
                                        [container_id |-> CHOOSE c \in found : TRUE]),
                       !.call.pc = "done", !.call.out = "success"]

\* A whole call run without interruption, in two halves: up to the port
\* allocation, and from the port get_free_port returned.
LaunchToPort(w, faults) ==
    The({IF w1.call.pc = "get_id" THEN LaunchGetId(w1) ELSE w1 :
            w1 \in {LaunchCheck(w, faults)}})

\* The launch with registry.register_service outside `if result["success"]`.
LaunchFromSetup_registering_failures(w, faults, ok) ==
    IF w.call.pc # "setup"
    THEN w
    ELSE The({IF w4.call.pc = "register"
              THEN LaunchDiscover(LaunchRegister(w4), faults)
              ELSE [LaunchRegister(w4) EXCEPT !.call.pc = "done"] :
                 w4 \in {setup_fastapi_container(w, ok)}})

LaunchFromSetup(w, faults, ok) ==
    The({IF w5.call.pc = "discover" THEN LaunchDiscover(w5, faults) ELSE w5 :
            w5 \in {IF w4.call.pc = "register" THEN LaunchRegister(w4) ELSE w4 :
                      w4 \in {IF w.call.pc = "setup"
                              THEN setup_fastapi_container(w, ok) ELSE w}}})

LaunchFromPort(w, faults, port, ok) ==
    The({LaunchFromSetup(w3, faults, ok) :
            w3 \in {IF w.call.pc = "get_port" THEN LaunchGetPort(w, faults, port) ELSE w}})

\* Where the runtime calls of a launch may raise.
LaunchFaultSets(svcs) ==
    UpTo(({"launch_reap", "port_reap"} \X Keys(svcs))
             \cup {<<"port_list", NoName>>, <<"discover", NoName>>}, MaxFaults)

\* ------------------------------------------------------------------------
\* Reconciliation engine (container_recovery.py): startup_container_recovery
\* ------------------------------------------------------------------------
\* recovery_results[service_id] = {...}
Outcome(status, reason, detail) ==
    [status |-> status, reason |-> reason, detail |-> detail]

SetResult(results, service_id, outcome) ==
    [k \in DOMAIN results \cup {service_id} |->
        IF k = service_id THEN outcome ELSE results[k]]

\* failed_count += 1 with a reason
RecoveryFailed_uncounted(st, service_id, reason, detail) ==
    [st EXCEPT !.results = SetResult(@, service_id, Outcome("failed", reason, detail))]

RecoveryFailed(st, service_id, reason, detail) ==
    [st EXCEPT !.failed = @ + 1,
               !.results = SetResult(@, service_id, Outcome("failed", reason, detail))]

\* The body of the loop for one service of the snapshot.  `st` carries the
\* registry, the runtime, the counters, the result map and the start calls
\* issued so far.
BackfillByName_skipped(st, service_id, container) == st

\* registry.update_service(service_id, container_id=container.id), for the
\* container found by name
BackfillByName(st, service_id, container) ==
    [st EXCEPT !.services = update_service(@, service_id, [container_id |-> container])]

RecoverOne(st, service_id, faults) ==
    LET service == get_service(st.services, service_id)
        container_id == service.container_id
        container_name == service.container_name
        rt == st.containers
        found_by_id == Truthy(container_id) /\ FoundById(rt, container_id)
        try_name == ~found_by_id /\ TruthyName(container_name)
        by_name == IF try_name THEN ByName(rt, container_name) ELSE {}
        container == IF found_by_id THEN container_id
                     ELSE IF by_name # {} THEN CHOOSE c \in by_name : TRUE
                     ELSE None
        named == IF ~found_by_id /\ by_name # {}
                 THEN BackfillByName(st, service_id, container)
                 ELSE st
    IN  IF ~Truthy(container_id) /\ ~TruthyName(container_name)
        THEN RecoveryFailed(st, service_id, "no_container_info", "")
        ELSE IF Truthy(container_id) /\ <<"get_id", service_id>> \in faults
        THEN RecoveryFailed(st, service_id, "error", "get_id")
        ELSE IF try_name /\ <<"get_name", service_id>> \in faults
        THEN RecoveryFailed(st, service_id, "error", "get_name")
        ELSE IF container = None
        THEN RecoveryFailed([st EXCEPT !.services = unregister_service(@, service_id)],
                            service_id, "container_not_found", "")
        ELSE IF <<"reload", service_id>> \in faults
        THEN RecoveryFailed(named, service_id, "error", "reload")
        ELSE LET current_status == rt[container].status
             IN  IF current_status = "running"
                 THEN [named EXCEPT
                          !.services = update_service(@, service_id, [status |-> "running"]),
                          !.recovered = @ + 1,
                          !.results = SetResult(@, service_id,
                                                Outcome("already_running", "", ""))]
                 ELSE IF current_status \in {"exited", "stopped"}
                 THEN LET issued == [named EXCEPT !.calls = @ \cup {<<"start", container>>}]
                          started == [issued EXCEPT !.containers[container].status = "running"]
                      IN  IF <<"start", service_id>> \in faults
                          THEN RecoveryFailed(issued, service_id, "error", "start")
                          ELSE IF <<"reload_started", service_id>> \in faults
                          THEN RecoveryFailed(started, service_id, "error", "reload_started")
                          ELSE [started EXCEPT
                                  !.services = update_service(@, service_id,
                                      [status |-> started.containers[container].status]),
                                  !.recovered = @ + 1,
                                  !.results = SetResult(@, service_id,
                                      Outcome("restarted", "",
                                              started.containers[container].status))]
                 ELSE [named EXCEPT
                          !.services = update_service(@, service_id,
                                                      [status |-> current_status]),
                          !.failed = @ + 1,
                          !.results = SetResult(@, service_id,
                              Outcome("failed", "unexpected_state", current_status))]

\* for service_id, service in services.items(), over the first n items of
\* the snapshot
RECURSIVE RecoverLoop(_, _, _, _)
RecoverLoop(st, snapshot, faults, n) ==
    IF n = 0 THEN st
    ELSE The({RecoverOne(prev, snapshot[n].service_id, faults) :
                 prev \in {RecoverLoop(st, snapshot, faults, n - 1)}})

RecoverySites == {"recovery_reap", "get_id", "get_name", "reload", "start", "reload_started"}

RecoveryFaultSets(svcs) == FaultSets(RecoverySites, Keys(svcs))

\* The whole call: the registry and the runtime afterwards, and the value
\* returned (kind "raised" when an exception leaves the call).
RecoveryAfter(reap, start, faults) ==
    LET snapshot == reap.services
    IN  IF reap.raised
        THEN [start EXCEPT !.services = reap.services, !.kind = "raised"]
        ELSE IF snapshot = <<>>
        THEN [start EXCEPT !.services = snapshot, !.kind = "no_services"]
        ELSE [RecoverLoop([start EXCEPT !.services = snapshot],
                          snapshot, faults, Len(snapshot))
                 EXCEPT !.total = Len(snapshot)]

startup_container_recovery(svcs, rt, faults) ==
    LET start == [services |-> svcs, containers |-> rt, recovered |-> 0, failed |-> 0,
                  results |-> <<>>, calls |-> {}, kind |-> "completed", total |-> 0]
    IN  IF ~docker_available
        THEN [start EXCEPT !.kind = "unavailable"]
        ELSE The({RecoveryAfter(reap, start, faults) :
                    reap \in {cleanup_dead_services(svcs, rt, "recovery_reap", faults)}})

\* ------------------------------------------------------------------------
\* Spec: the handlers one after another, and the runtime's own changes
\* ------------------------------------------------------------------------
InitCommon ==
    /\ services = <<>>
    /\ registry_file = NoFile
    /\ containers = <<>>
    /\ next_cid = 1
    /\ host_ports = {}
    /\ docker_available = TRUE
    /\ result = NoResult
    /\ session = NoSession
    /\ assigned = <<>>
    /\ threads = <<>>
    /\ called = FALSE
    /\ stack = <<>>
    /\ phase = "serving"
    /\ invocations = 0
    /\ teardowns = 0

Init == InitCommon

\* launch_template_container(template), run to completion
Launch(template) ==
    /\ Len(assigned) < MaxLaunches
    /\ \E faults \in LaunchFaultSets(services), ok \in BOOLEAN :
         \E w2 \in {LaunchToPort(World(services, containers, next_cid,
                                        NewCall(template)), faults)} :
            \E port \in (IF w2.call.pc = "get_port"
                          THEN LaunchPortChoices(w2, faults) ELSE {None}) :
               \E w \in {LaunchFromPort(w2, faults, port, ok)} :
                   /\ services' = w.services
                   /\ registry_file' = SavedAfter(services')
                   /\ containers' = w.containers
                   /\ next_cid' = w.next_cid
                   /\ assigned' = IF w.call.out = "success"
                                  THEN Append(assigned, <<template, w.call.instance_id,
                                                          w.call.assigned_port>>)
                                  ELSE assigned
                   /\ result' = [NoResult EXCEPT !.op = "launch", !.kind = w.call.out,
                                                 !.template = template,
                                                 !.key = w.call.service_id,
                                                 !.value = w.call.instance_id,
                                                 !.calls = w.call.steps,
                                                 !.returned = LaunchReturned(w.call),
                                                 !.faults = faults]
    /\ UNCHANGED <<terminalVars, host_ports, docker_available, threads, shutdownVars>>

\* registry.unregister_service(service_id), as the lifecycle operations call it
Unregister(service_id) ==
    /\ service_id \in Keys(services)
    /\ services' = unregister_service(services, service_id)
    /\ registry_file' = SavedAfter(services')
    /\ result' = [NoResult EXCEPT !.op = "unregister", !.key = service_id]
    /\ UNCHANGED <<terminalVars, runtimeVars, launchVars, shutdownVars>>

\* registry.cleanup_dead_services(), as list_running_services calls it
CleanupDeadServices ==
    /\ \E faults \in FaultSets({"reap"}, Keys(services)) :
         \E reap \in {cleanup_dead_services(services, containers, "reap", faults)} :
             /\ services' = reap.services
             /\ registry_file' = SavedAfter(services')
             /\ result' = [NoResult EXCEPT !.op = "reap",
                              !.kind = IF reap.raised THEN "raised" ELSE "completed",
                              !.total = Len(reap.dead),
                              !.returned = cleanup_dead_services_returned(reap),
                              !.faults = faults]
    /\ UNCHANGED <<terminalVars, runtimeVars, launchVars, shutdownVars>>

\* startup_container_recovery(), at startup or by POST /containers/recover
Recovery ==
    /\ \E faults \in RecoveryFaultSets(services) :
         \E r \in {startup_container_recovery(services, containers, faults)} :
             /\ services' = r.services
             /\ registry_file' = SavedAfter(services')
             /\ containers' = r.containers
             /\ result' = [NoResult EXCEPT !.op = "recovery", !.kind = r.kind,
                              !.recovered = r.recovered, !.failed = r.failed,
                              !.total = r.total, !.results = r.results,
                              !.calls = r.calls, !.faults = faults]
    /\ UNCHANGED <<terminalVars, next_cid, host_ports, docker_available, launchVars, shutdownVars>>

\* The runtime changes on its own: a container exits, is paused, is
\* removed, or is removed and created again under the same name.
EnvResult == [NoResult EXCEPT !.op = "env"]

ContainerExits(c) ==
    /\ containers[c].status = "running"
    /\ containers' = [containers EXCEPT ![c].status = "exited"]
    /\ result' = EnvResult
    /\ UNCHANGED <<terminalVars, registryVars, next_cid, host_ports, docker_available,
                   launchVars, shutdownVars>>

ContainerPaused(c) ==
    /\ containers[c].status = "running"
    /\ containers' = [containers EXCEPT ![c].status = "paused"]
    /\ result' = EnvResult
    /\ UNCHANGED <<terminalVars, registryVars, next_cid, host_ports, docker_available,
                   launchVars, shutdownVars>>

ContainerRemoved(c) ==
    /\ containers' = RemoveContainer(containers, c)
    /\ result' = EnvResult
    /\ UNCHANGED <<terminalVars, registryVars, next_cid, host_ports, docker_available,
                   launchVars, shutdownVars>>

ContainerRecreated(c) ==
    /\ next_cid <= MaxContainers
    /\ containers' = AddContainer(RemoveContainer(containers, c), next_cid,
                                  containers[c].name, "running", containers[c].port)
    /\ next_cid' = next_cid + 1
    /\ result' = EnvResult
    /\ UNCHANGED <<terminalVars, registryVars, host_ports, docker_available, launchVars, shutdownVars>>

Next ==
    \/ \E template \in Templates \cup {UnknownTemplate} : Launch(template)
    \/ \E service_id \in Keys(services) : Unregister(service_id)
    \/ CleanupDeadServices
    \/ Recovery
    \/ \E c \in DOMAIN containers : ContainerExits(c)
    \/ \E c \in DOMAIN containers : ContainerPaused(c)
    \/ \E c \in DOMAIN containers : ContainerRemoved(c)
    \/ \E c \in DOMAIN containers : ContainerRecreated(c)

Spec == Init /\ [][Next]_vars

\* A step of startup_container_recovery during which no runtime call raised.
RecoveryStep == result'.op = "recovery"
CleanRecoveryStep == RecoveryStep /\ result'.faults = {}

\* The entry's recorded container_id is set and does not resolve.
StaleId(e) == Truthy(e.container_id) /\ ~FoundById(containers, e.container_id)

\* C4: an instance_id once assigned to a registered service of a template is
\* never assigned to a later service of that template.
C4_InstanceIdNeverReused ==
    \A i, j \in DOMAIN assigned :
        i < j => ~(assigned[i][1] = assigned[j][1] /\ assigned[i][2] = assigned[j][2])

\* C5: an entry whose container_id resolves neither by id nor by name is
\* removed by one run of startup_container_recovery, and the result reports
\* it as failed with reason container_not_found and counts it in failed.
C5_StaleEntryRemovedAndReported ==
    [][CleanRecoveryStep =>
         \A i \in DOMAIN services :
            LET e == services[i]
            IN  (StaleId(e) /\ ByName(containers, e.container_name) = {}) =>
                   /\ e.service_id \notin Keys(services')
                   /\ e.service_id \in DOMAIN result'.results
                   /\ result'.results[e.service_id].status = "failed"
                   /\ result'.results[e.service_id].reason = "container_not_found"
                   /\ result'.failed >= 1]_vars

\* C6: an entry whose container_id does not resolve but whose container_name
\* does is kept by startup_container_recovery, gets the id of the container
\* found by name, and is then handled by the running/exited/unexpected rule.
C6_BackfillByName ==
    [][CleanRecoveryStep =>
         \A i \in DOMAIN services :
            LET e == services[i]
            IN  (StaleId(e) /\ ByName(containers, e.container_name) # {}) =>
                   /\ e.service_id \in Keys(services')
                   /\ get_service(services', e.service_id).container_id
                         \in ByName(containers, e.container_name)
                   /\ e.service_id \in DOMAIN result'.results]_vars

\* C7: for an entry whose container exists in an exited/stopped state,
\* startup_container_recovery issues a start and the registry status becomes
\* "running"; if the start errors, the registry status is "failed" and the
\* error is in that entry's result.
C7_RestartsStopped ==
    [][RecoveryStep =>
         \A i \in DOMAIN services :
            LET e == services[i]
                start_fails == <<"start", e.service_id>> \in result'.faults
            IN  (/\ Truthy(e.container_id)
                 /\ FoundById(containers, e.container_id)
                 /\ containers[e.container_id].status \in {"exited", "stopped"}
                 /\ result'.faults \subseteq {<<"start", e.service_id>>}) =>
                   /\ <<"start", e.container_id>> \in result'.calls
                   /\ e.service_id \in Keys(services')
                   /\ ~start_fails =>
                         get_service(services', e.service_id).status = "running"
                   /\ start_fails =>
                         /\ get_service(services', e.service_id).status = "failed"
                         /\ result'.results[e.service_id].reason = "error"]_vars

\* C8: for an entry whose container exists in a state other than running or
\* exited/stopped, startup_container_recovery issues no call on the
\* container, keeps the entry, and leaves its registry status "failed".
C8_UnexpectedStateMarkedFailed ==
    [][CleanRecoveryStep =>
         \A i \in DOMAIN services :
            LET e == services[i]
            IN  (/\ Truthy(e.container_id)
                 /\ FoundById(containers, e.container_id)
                 /\ containers[e.container_id].status
                       \notin {"running", "exited", "stopped"}) =>
                   /\ \A call \in result'.calls : call[2] # e.container_id
                   /\ containers'[e.container_id] = containers[e.container_id]
                   /\ e.service_id \in Keys(services')
                   /\ get_service(services', e.service_id).status = "failed"]_vars

\* C9: whatever error the runtime raises for one entry, no exception leaves
\* startup_container_recovery, and the result it returns covers every entry
\* for which no runtime call raised.
C9_NoEntryAbortsTheBatch ==
    [][RecoveryStep =>
         /\ result'.kind # "raised"
         /\ \A id \in Keys(services') : id \in DOMAIN result'.results]_vars

\* ------------------------------------------------------------------------
\* SpecConc: launch_template_container calls on concurrent worker threads
\* (the launch endpoints are synchronous handlers run on a thread pool);
\* a thread may be preempted between any two accesses to the registry.
\* ------------------------------------------------------------------------
Threads == 1..MaxThreads

InitConc ==
    /\ services = <<>>
    /\ registry_file = NoFile
    /\ containers = <<>>
    /\ next_cid = 1
    /\ host_ports = {}
    /\ docker_available = TRUE
    /\ result = NoResult
    /\ session = NoSession
    /\ assigned = <<>>
    /\ threads = [t \in Threads |-> IdleCall]
    /\ called = FALSE
    /\ stack = <<>>
    /\ phase = "serving"
    /\ invocations = 0
    /\ teardowns = 0

\* Thread t's step took the world to w.
ThreadMoves(t, step) ==
    \E w \in {step} :
       /\ services' = w.services
       /\ registry_file' = SavedAfter(services')
       /\ containers' = w.containers
       /\ next_cid' = w.next_cid
       /\ threads' = [threads EXCEPT ![t] = w.call]
       /\ result' = [NoResult EXCEPT !.op = "thread", !.kind = w.call.pc, !.value = t]
       /\ UNCHANGED <<terminalVars, host_ports, docker_available, shutdownVars>>

ThreadWorld(t) == World(services, containers, next_cid, threads[t])

ThreadBegin(t, template) ==
    /\ threads[t].pc = "idle"
    /\ \E faults \in LaunchFaultSets(services) :
         ThreadMoves(t, LaunchCheck(World(services, containers, next_cid,
                                          NewCall(template)), faults))
    /\ UNCHANGED assigned

ThreadGetId(t) ==
    /\ threads[t].pc = "get_id"
    /\ ThreadMoves(t, LaunchGetId(ThreadWorld(t)))
    /\ UNCHANGED assigned

ThreadGetPort(t) ==
    /\ threads[t].pc = "get_port"
    /\ \E faults \in LaunchFaultSets(services) :
         \E port \in LaunchPortChoices(ThreadWorld(t), faults) :
            ThreadMoves(t, LaunchGetPort(ThreadWorld(t), faults, port))
    /\ UNCHANGED assigned

ThreadSetup(t) ==
    /\ threads[t].pc = "setup"
    /\ \E ok \in BOOLEAN : ThreadMoves(t, setup_fastapi_container(ThreadWorld(t), ok))
    /\ UNCHANGED assigned

ThreadRegister(t) ==
    /\ threads[t].pc = "register"
    /\ ThreadMoves(t, LaunchRegister(ThreadWorld(t)))
    /\ assigned' = Append(assigned, <<threads[t].template, threads[t].instance_id,
                                      threads[t].assigned_port>>)

ThreadDiscover(t) ==
    /\ threads[t].pc = "discover"
    /\ \E faults \in LaunchFaultSets(services) :
         ThreadMoves(t, LaunchDiscover(ThreadWorld(t), faults))
    /\ UNCHANGED assigned

NextConc ==
    \/ \E t \in Threads, template \in Templates \cup {UnknownTemplate} :
          ThreadBegin(t, template)
    \/ \E t \in Threads : ThreadGetId(t)
    \/ \E t \in Threads : ThreadGetPort(t)
    \/ \E t \in Threads : ThreadSetup(t)
    \/ \E t \in Threads : ThreadRegister(t)
    \/ \E t \in Threads : ThreadDiscover(t)

SpecConc == InitConc /\ [][NextConc]_vars

\* Two calls for the same template that are both under way.
Overlapping(t, u) ==
    /\ t # u
    /\ threads[t].pc \notin {"idle", "done"}
    /\ threads[u].pc \notin {"idle", "done"}
    /\ threads[t].template = threads[u].template

\* C1: no two concurrent launch_template_container calls for the same
\* template hold the same instance_id (and so the same service_id and
\* container_name).
C1_DistinctInstanceIds ==
    \A t, u \in Threads :
        (Overlapping(t, u) /\ threads[t].instance_id # None
                           /\ threads[u].instance_id # None) =>
           /\ threads[t].instance_id # threads[u].instance_id
           /\ threads[t].service_id # threads[u].service_id
           /\ threads[t].container_name # threads[u].container_name

\* C2: a port get_free_port hands to a launch is not recorded in the
\* registry nor published by a running container, and differs from the port
\* held by every concurrent launch of the same template.
C2_DistinctPorts ==
    [][\A t \in Threads :
          (threads[t].pc = "get_port" /\ threads'[t].pc = "setup") =>
             /\ threads'[t].assigned_port \notin get_used_ports(services')
             /\ threads'[t].assigned_port \notin PublishedPorts(containers')
             /\ \A u \in Threads :
                   (Overlapping(t, u) /\ threads[u].assigned_port # None) =>
                      threads'[t].assigned_port # threads[u].assigned_port]_vars

\* ------------------------------------------------------------------------
\* Shutdown teardown (container_recovery.py): graceful_shutdown
\* ------------------------------------------------------------------------
\* `if hasattr(graceful_shutdown, "_called"): return`
already_called_never(flag) == FALSE

already_called(flag) == flag

\* The body of the loop of graceful_shutdown for one service of the
\* snapshot: resolve the container, stop it if running, remove it, and
\* unregister the service whatever happened.
ShutdownOne(st, service, faults) ==
    LET service_id == service.service_id
        container_id == service.container_id
        container_name == service.container_name
        rt == st.containers
        found == IF Truthy(container_id)
                 THEN IF FoundById(rt, container_id) THEN {container_id} ELSE {}
                 ELSE ByName(rt, container_name)
        gone == [st EXCEPT !.services = unregister_service(@, service_id)]
    IN  IF ~(Truthy(container_id) \/ TruthyName(container_name))
        THEN gone
        ELSE IF <<"teardown_get", service_id>> \in faults
        THEN [gone EXCEPT !.errors = @ + 1]
        ELSE IF found = {}
        THEN gone
        ELSE LET container == CHOOSE c \in found : TRUE
                 running == rt[container].status = "running"
                 stopping == IF running
                             THEN [gone EXCEPT !.calls = @ \cup {<<"stop", container>>}]
                             ELSE gone
                 stopped == IF running
                            THEN [stopping EXCEPT !.containers[container].status = "exited"]
                            ELSE stopping
                 removing == [stopped EXCEPT !.calls = @ \cup {<<"remove", container>>}]
             IN  IF running /\ <<"teardown_stop", service_id>> \in faults
                 THEN [stopping EXCEPT !.errors = @ + 1]
                 ELSE IF <<"teardown_remove", service_id>> \in faults
                 THEN [removing EXCEPT !.errors = @ + 1]
                 ELSE [removing EXCEPT !.containers = RemoveContainer(@, container),
                                       !.removed = @ + 1]

RECURSIVE ShutdownLoop(_, _, _, _)
ShutdownLoop(st, snapshot, faults, n) ==
    IF n = 0 THEN st
    ELSE The({ShutdownOne(prev, snapshot[n], faults) :
                 prev \in {ShutdownLoop(st, snapshot, faults, n - 1)}})

\* The sweep of the registered services: lines 170-235.
ShutdownSweep(svcs, rt, faults) ==
    ShutdownLoop([services |-> svcs, containers |-> rt, calls |-> {},
                  removed |-> 0, errors |-> 0],
                 svcs, faults, Len(svcs))

\* any(pattern in container_name for pattern in naming_patterns): the name
\* contains "_instance_", or "_cont" (which the other patterns contain).
MatchesNaming(name) ==
    \/ \E i \in 2..(Len(name) - 1) : name[i] = "instance"
    \/ \E i \in 2..Len(name) : name[i] = "cont"

\* The loop of cleanup_orphaned_containers over our_containers, in the
\* order client.containers.list(all=True) gave them (by container id).
RECURSIVE OrphanLoop(_, _, _)
OrphanLoop(st, ours, faults) ==
    IF ours = {} THEN st
    ELSE LET container == CHOOSE c \in ours : \A d \in ours : c <= d
             name == st.containers[container].name
             running == st.containers[container].status = "running"
             stopping == IF running
                         THEN [st EXCEPT !.calls = @ \cup {<<"stop", container>>}]
                         ELSE st
             stopped == IF running
                        THEN [stopping EXCEPT !.containers[container].status = "exited"]
                        ELSE stopping
             removing == [stopped EXCEPT !.calls = @ \cup {<<"remove", container>>}]
             after == IF running /\ <<"orphan_stop", name>> \in faults
                      THEN [stopping EXCEPT !.errors = @ + 1]
                      ELSE IF <<"orphan_remove", name>> \in faults
                      THEN [removing EXCEPT !.errors = @ + 1]
                      ELSE [removing EXCEPT !.containers = RemoveContainer(@, container),
                                            !.removed = @ + 1]
         IN  The({OrphanLoop(next, ours \ {container}, faults) : next \in {after}})

cleanup_orphaned_containers_aborting(rt, faults) ==
    LET st == [containers |-> rt, calls |-> {}, removed |-> 0, errors |-> 0]
    IN  IF ~docker_available \/ faults # {}
        THEN st
        ELSE OrphanLoop(st, {c \in DOMAIN rt : MatchesNaming(rt[c].name)}, faults)

cleanup_orphaned_containers(rt, faults) ==
    LET st == [containers |-> rt, calls |-> {}, removed |-> 0, errors |-> 0]
    IN  IF ~docker_available \/ <<"orphan_list", NoName>> \in faults
        THEN st
        ELSE OrphanLoop(st, {c \in DOMAIN rt : MatchesNaming(rt[c].name)}, faults)

TeardownSites == {"teardown_get", "teardown_stop", "teardown_remove"}
OrphanSites == {"orphan_stop", "orphan_remove"}

ContainerNames(rt) == {rt[c].name : c \in DOMAIN rt}

\* ------------------------------------------------------------------------
\* SpecShutdown: graceful_shutdown as the SIGINT and SIGTERM handler, as the
\* atexit hook, and called directly.  All of these run on the main thread:
\* a signal handler runs on top of whatever the main thread was doing,
\* another graceful_shutdown included, and that one resumes when the handler
\* returns.  sys.exit(0) in a handler unwinds the whole stack.
\* ------------------------------------------------------------------------
\* What a process start can find for one service: the registry file of the
\* previous run and the containers the runtime still has.
Situations ==
    {"absent", "running", "exited", "gone", "renamed", "no_id", "orphan", "custom"}

\* container_name = f"{template}_{safe_instance_name}": the name the launcher
\* gives a container launched with a custom instance name.
CustomName(template, safe_instance_name) == <<template, safe_instance_name>>

SituationEntry(template, k, situation) ==
    LET name == InstanceName(template, 1)
        port == base_port_preference(template)
        e == NewEntry(name, template, name, port, 1, k)
    IN  CASE situation \in {"absent", "orphan", "custom"} -> <<>>
          [] situation = "running" -> <<e>>
          [] situation = "exited" -> <<[e EXCEPT !.status = "exited"]>>
          [] situation = "gone" -> <<e>>
          [] situation = "renamed" -> <<[e EXCEPT !.container_id = k + 2]>>
          [] situation = "no_id" -> <<[e EXCEPT !.container_id = None]>>

SituationContainer(template, k, situation) ==
    LET name == InstanceName(template, 1)
        port == base_port_preference(template)
    IN  CASE situation \in {"absent", "gone"} -> <<>>
          [] situation = "exited" ->
                (k :> [name |-> name, status |-> "exited", port |-> port])
          [] situation = "custom" ->
                (k :> [name |-> CustomName(template, "mine"), status |-> "running",
                       port |-> port])
          [] OTHER ->
                (k :> [name |-> name, status |-> "running", port |-> port])

InitShutdown ==
    /\ \E s1 \in Situations, s2 \in Situations :
         /\ services = SituationEntry("buckets", 1, s1) \o SituationEntry("db", 2, s2)
         /\ containers = SituationContainer("buckets", 1, s1)
                            @@ SituationContainer("db", 2, s2)
    /\ registry_file = IF services = <<>> THEN NoFile ELSE json_dump(services)
    /\ next_cid = 5
    /\ host_ports = {}
    /\ docker_available \in BOOLEAN
    /\ result = NoResult
    /\ session = NoSession
    /\ assigned = <<>>
    /\ threads = <<>>
    /\ called = FALSE
    /\ stack = <<>>
    /\ phase = "serving"
    /\ invocations = 0
    /\ teardowns = 0

Frame(kind) == [kind |-> kind, pc |-> "guard", late |-> called]

Top == stack[Len(stack)]
Pop == SubSeq(stack, 1, Len(stack) - 1)
SetTopPc(pc) == [stack EXCEPT ![Len(stack)].pc = pc]

\* `if signum is not None`
FromSignal(frame) == frame.kind \in {"SIGINT", "SIGTERM"}

\* A signal arrives; setup_signal_handlers registered the handler (it runs
\* only when the runtime is available).
Signal(kind) ==
    /\ docker_available
    /\ phase # "exited"
    /\ invocations < MaxInvocations
    /\ stack' = Append(stack, Frame(kind))
    /\ invocations' = invocations + 1
    /\ result' = [NoResult EXCEPT !.op = "signal"]
    /\ UNCHANGED <<terminalVars, registryVars, runtimeVars, launchVars, called, phase, teardowns>>

\* graceful_shutdown() called by the program itself.
ExplicitCall ==
    /\ phase = "serving"
    /\ stack = <<>>
    /\ invocations < MaxInvocations
    /\ stack' = Append(stack, Frame("explicit"))
    /\ invocations' = invocations + 1
    /\ result' = [NoResult EXCEPT !.op = "call"]
    /\ UNCHANGED <<terminalVars, registryVars, runtimeVars, launchVars, called, phase, teardowns>>

\* The interpreter starts to exit, and runs the atexit hook once.
ProcessEnds ==
    /\ phase = "serving"
    /\ stack = <<>>
    /\ phase' = "exiting"
    /\ result' = [NoResult EXCEPT !.op = "exit"]
    /\ UNCHANGED <<terminalVars, registryVars, runtimeVars, launchVars, called, stack,
                   invocations, teardowns>>

AtExit ==
    /\ phase = "exiting"
    /\ stack = <<>>
    /\ phase' = "atexit"
    /\ stack' = IF docker_available THEN <<Frame("atexit")>> ELSE <<>>
    /\ invocations' = IF docker_available THEN invocations + 1 ELSE invocations
    /\ result' = [NoResult EXCEPT !.op = "atexit"]
    /\ UNCHANGED <<terminalVars, registryVars, runtimeVars, launchVars, called, teardowns>>

ProcessGone ==
    /\ phase = "atexit"
    /\ stack = <<>>
    /\ phase' = "exited"
    /\ result' = [NoResult EXCEPT !.op = "exit"]
    /\ UNCHANGED <<terminalVars, registryVars, runtimeVars, launchVars, called, stack,
                   invocations, teardowns>>

\* The frame on top returns, or leaves by sys.exit(0) when it is a signal
\* handler: SystemExit unwinds every frame below it.
Leave(frame) ==
    IF FromSignal(frame)
    THEN /\ stack' = <<>>
         /\ phase' = IF phase = "serving" THEN "exiting" ELSE phase
    ELSE /\ stack' = Pop
         /\ phase' = phase

\* Lines 158-159: the guard.
ShutdownGuard ==
    /\ stack # <<>>
    /\ Top.pc = "guard"
    /\ IF already_called(called)
       THEN stack' = Pop
       ELSE stack' = SetTopPc("set")
    /\ result' = [NoResult EXCEPT !.op = "shutdown", !.kind = "guard"]
    /\ UNCHANGED <<terminalVars, registryVars, runtimeVars, launchVars, called, phase,
                   invocations, teardowns>>

\* Lines 160-168: the flag is set; without the runtime there is nothing to do.
ShutdownSet ==
    /\ stack # <<>>
    /\ Top.pc = "set"
    /\ called' = TRUE
    /\ teardowns' = teardowns + 1
    /\ IF docker_available
       THEN stack' = SetTopPc("sweep") /\ phase' = phase
       ELSE Leave(Top)
    /\ result' = [NoResult EXCEPT !.op = "shutdown", !.kind = "set"]
    /\ UNCHANGED <<terminalVars, registryVars, runtimeVars, launchVars, invocations>>

\* Lines 170-235: the registered services.
ShutdownServices ==
    /\ stack # <<>>
    /\ Top.pc = "sweep"
    /\ \E faults \in FaultSets(TeardownSites, Keys(services)) :
         \E sweep \in {ShutdownSweep(services, containers, faults)} :
             /\ services' = sweep.services
             /\ registry_file' = SavedAfter(services')
             /\ containers' = sweep.containers
             /\ result' = [NoResult EXCEPT !.op = "shutdown", !.kind = "sweep",
                              !.recovered = sweep.removed, !.failed = sweep.errors,
                              !.calls = sweep.calls, !.faults = faults]
    /\ stack' = SetTopPc("orphans")
    /\ UNCHANGED <<terminalVars, next_cid, host_ports, docker_available, launchVars, called, phase,
                   invocations, teardowns>>

\* Lines 237-238: cleanup_orphaned_containers().
ShutdownOrphans ==
    /\ stack # <<>>
    /\ Top.pc = "orphans"
    /\ \E faults \in UpTo((OrphanSites \X ContainerNames(containers))
                             \cup {<<"orphan_list", NoName>>}, MaxFaults) :
         \E sweep \in {cleanup_orphaned_containers(containers, faults)} :
             /\ containers' = sweep.containers
             /\ result' = [NoResult EXCEPT !.op = "shutdown", !.kind = "orphans",
                              !.recovered = sweep.removed, !.failed = sweep.errors,
                              !.calls = sweep.calls, !.faults = faults]
    /\ stack' = SetTopPc("leave")
    /\ UNCHANGED <<terminalVars, registryVars, next_cid, host_ports, docker_available, launchVars,
                   called, phase, invocations, teardowns>>

\* Lines 243-245.
ShutdownLeave ==
    /\ stack # <<>>
    /\ Top.pc = "leave"
    /\ Leave(Top)
    /\ result' = [NoResult EXCEPT !.op = "shutdown", !.kind = "leave"]
    /\ UNCHANGED <<terminalVars, registryVars, runtimeVars, launchVars, called, invocations, teardowns>>

NextShutdown ==
    \/ \E kind \in {"SIGINT", "SIGTERM"} : Signal(kind)
    \/ ExplicitCall
    \/ ProcessEnds
    \/ AtExit
    \/ ProcessGone
    \/ ShutdownGuard
    \/ ShutdownSet
    \/ ShutdownServices
    \/ ShutdownOrphans
    \/ ShutdownLeave

SpecShutdown == InitShutdown /\ [][NextShutdown]_vars

SweepStep == result'.op = "shutdown" /\ result'.kind = "sweep"
OrphansStep == result'.op = "shutdown" /\ result'.kind = "orphans"

\* C11: the teardown unregisters every service that was registered when it
\* began, whether its container was resolved, stopped and removed, was not
\* found, or a runtime call on it raised; the registry is empty when the
\* teardown leaves.
C11_EveryServiceUnregistered ==
    [][/\ SweepStep => \A service_id \in Keys(services) :
                            service_id \notin Keys(services')
       /\ (result'.op = "shutdown" /\ result'.kind = "leave") => services' = <<>>]_vars

\* The sweep has just run, a runtime call on one service raised, and no
\* service is left in the registry.
C11_Witness ==
    /\ result.op = "shutdown"
    /\ result.kind = "sweep"
    /\ result.failed >= 1
    /\ result.faults # {}
    /\ services = <<>>

\* C12: the teardown of an entry resolves the container by id and then by
\* name: when the recorded container_id does not resolve and a container
\* with the entry's container_name exists, the teardown of that entry
\* removes that container.
C12_ResolvedByIdThenName ==
    [][(SweepStep /\ result'.faults = {}) =>
          \A i \in DOMAIN services :
              (Truthy(services[i].container_id)
                  /\ ~FoundById(containers, services[i].container_id)) =>
                  \A c \in ByName(containers, services[i].container_name) :
                      /\ <<"remove", c>> \in result'.calls
                      /\ c \notin DOMAIN containers']_vars

\* The names launch_template_container gives its containers:
\* "{template}_instance_{n}" and "{template}_{custom_name}".
LauncherName(name) == Len(name) >= 2 /\ name[1] \in Templates

\* C13: once the teardown has run without a runtime error, no container with
\* a launcher-generated name is left, registered or not, and no container
\* with another name was removed.
C13_NoLauncherContainerRemains ==
    [][(/\ result.op = "shutdown" /\ result.kind = "sweep" /\ result.faults = {}
        /\ OrphansStep /\ result'.faults = {}) =>
          /\ \A c \in DOMAIN containers' : ~LauncherName(containers'[c].name)
          /\ \A c \in DOMAIN containers :
                ~LauncherName(containers[c].name) => c \in DOMAIN containers']_vars

\* C14: the orphan sweep never stops the shutdown: whatever fails in it, the
\* shutdown goes on to its end, and unless the listing itself failed, every
\* container that matches the naming patterns is attempted, and removed when
\* no call on it failed.
C14_OrphanSweepCompletes ==
    [][OrphansStep =>
          /\ stack' = SetTopPc("leave")
          /\ <<"orphan_list", NoName>> \notin result'.faults =>
                \A c \in {d \in DOMAIN containers : MatchesNaming(containers[d].name)} :
                    /\ <<"stop", c>> \in result'.calls
                          \/ <<"remove", c>> \in result'.calls
                    /\ (\A site \in OrphanSites :
                            <<site, containers[c].name>> \notin result'.faults)
                          => c \notin DOMAIN containers']_vars

\* The orphan sweep failed on one container and removed another.
C14_Witness ==
    /\ result.op = "shutdown"
    /\ result.kind = "orphans"
    /\ result.failed >= 1
    /\ result.recovered >= 1

\* ------------------------------------------------------------------------
\* SpecReg: the registry API called directly, no runtime involved
\* ------------------------------------------------------------------------
InitReg == InitCommon

RegisterService(service_id, template, instance_id) ==
    /\ services' = register_service(services, service_id, template, service_id,
                                    base_port_preference(template), instance_id, None)
    /\ registry_file' = SavedAfter(services')
    /\ result' = [NoResult EXCEPT !.op = "register", !.key = service_id]
    /\ UNCHANGED <<terminalVars, runtimeVars, launchVars, shutdownVars>>

UnregisterService(service_id) ==
    /\ services' = unregister_service(services, service_id)
    /\ registry_file' = SavedAfter(services')
    /\ result' = [NoResult EXCEPT !.op = "unregister", !.key = service_id,
                     !.kind = IF service_id \in Keys(services)
                              THEN "removed" ELSE "absent"]
    /\ UNCHANGED <<terminalVars, runtimeVars, launchVars, shutdownVars>>

GetNextInstanceId(template) ==
    /\ result' = [NoResult EXCEPT !.op = "next_id", !.key = <<template>>,
                                  !.value = get_next_instance_id(services, template)]
    /\ UNCHANGED <<terminalVars, registryVars, runtimeVars, launchVars, shutdownVars>>

NextReg ==
    \/ \E service_id \in DirectIds, template \in Templates,
          instance_id \in {None} \cup (1..MaxInstance) :
          RegisterService(service_id, template, instance_id)
    \/ \E service_id \in DirectIds : UnregisterService(service_id)
    \/ \E template \in Templates : GetNextInstanceId(template)

SpecReg == InitReg /\ [][NextReg]_vars

\* The integer instance ids of a template's entries.
InstanceIdsOf(svcs, template) ==
    {svcs[i].instance_id :
        i \in {j \in DOMAIN svcs : svcs[j].template = template
                                   /\ svcs[j].instance_id # None}}

TemplateKeys(svcs, template) ==
    {svcs[i].service_id : i \in {j \in DOMAIN svcs : svcs[j].template = template}}

\* C3: get_next_instance_id(T) is 1 when the registry holds no entry of T,
\* and otherwise 1 + the largest instance_id among T's entries (so with
\* only instance 2 left of instances 1 and 2, the next id is 3).
C3_NextInstanceId ==
    result.op = "next_id" =>
        LET template == result.key[1]
            ids == InstanceIdsOf(services, template)
        IN  /\ TemplateKeys(services, template) = {} => result.value = 1
            /\ ids # {} => result.value = 1 + MaxOf(ids)

\* Instances 1 and 2 of buckets were registered, instance 1 is gone, and
\* the next id was computed.
C3_Witness ==
    /\ result.op = "next_id"
    /\ result.key = <<"buckets">>
    /\ InstanceIdsOf(services, "buckets") = {2}
    /\ Cardinality(TemplateKeys(services, "buckets")) = 1
    /\ result.value = 3

\* ------------------------------------------------------------------------
\* SpecStartup: a process starts on the registry file and the containers an
\* earlier run left, and reconciles: cleanup_dead_services and
\* startup_container_recovery, while containers exit, pause or are removed
\* ------------------------------------------------------------------------
\* Besides the situations above: an entry without container_id whose
\* container is gone, and an entry with neither container_id nor
\* container_name.
StartupSituations == Situations \cup {"no_id_gone", "no_info"}

StartupEntry(template, k, situation) ==
    LET name == InstanceName(template, 1)
        e == NewEntry(name, template, name, base_port_preference(template), 1, None)
    IN  CASE situation = "no_id_gone" -> <<e>>
          [] situation = "no_info" -> <<[e EXCEPT !.container_name = NoName]>>
          [] OTHER -> SituationEntry(template, k, situation)

StartupContainer(template, k, situation) ==
    IF situation \in {"no_id_gone", "no_info"}
    THEN <<>>
    ELSE SituationContainer(template, k, situation)

InitStartup ==
    /\ \E s1 \in StartupSituations, s2 \in StartupSituations :
         /\ services = StartupEntry("buckets", 1, s1) \o StartupEntry("db", 2, s2)
         /\ containers = StartupContainer("buckets", 1, s1)
                            @@ StartupContainer("db", 2, s2)
    /\ registry_file = IF services = <<>> THEN NoFile ELSE json_dump(services)
    /\ next_cid = 5
    /\ host_ports = {}
    /\ docker_available = TRUE
    /\ result = NoResult
    /\ session = NoSession
    /\ assigned = <<>>
    /\ threads = <<>>
    /\ called = FALSE
    /\ stack = <<>>
    /\ phase = "serving"
    /\ invocations = 0
    /\ teardowns = 0

NextStartup ==
    \/ CleanupDeadServices
    \/ Recovery
    \/ \E c \in DOMAIN containers : ContainerExits(c)
    \/ \E c \in DOMAIN containers : ContainerPaused(c)
    \/ \E c \in DOMAIN containers : ContainerRemoved(c)

SpecStartup == InitStartup /\ [][NextStartup]_vars

\* cleanup_dead_services ran to its end.
ReapStep == result'.op = "reap" /\ result'.kind = "completed"

\* The runtime reports the entry's container_id as not found.
DeadEntry(e) == Truthy(e.container_id) /\ ~FoundById(containers, e.container_id)

\* The ids of the entries cleanup_dead_services has to remove, in order.
DeadIds ==
    LET dead == SelectSeq(services, DeadEntry)
    IN  [i \in DOMAIN dead |-> dead[i].service_id]

\* C21: cleanup_dead_services removes exactly the entries whose container_id
\* the runtime does not find; an entry whose container_id is found stays,
\* with the status the runtime reports; an entry without container_id stays
\* as it is.
C21_ReapFrame ==
    [][ReapStep =>
          LET kept == SelectSeq(services, LAMBDA e : ~DeadEntry(e))
          IN  services' =
                [i \in DOMAIN kept |->
                    IF Truthy(kept[i].container_id)
                    THEN [kept[i] EXCEPT !.status = containers[kept[i].container_id].status]
                    ELSE kept[i]]]_vars

\* A dead entry was removed, and the entry that is left has the status of
\* its exited container.
C21_Witness ==
    /\ result.op = "reap"
    /\ result.kind = "completed"
    /\ result.total = 1
    /\ Len(services) = 1
    /\ Truthy(services[1].container_id)
    /\ services[1].status = "exited"

\* C22: cleanup_dead_services returns the list of the service ids it removed.
C22_ReapReturnsRemoved ==
    [][ReapStep =>
          /\ result'.returned.kind = "list"
          /\ result'.returned.ids = DeadIds]_vars

\* An entry has a container the runtime can resolve, by id or by name.
Resolvable(e, rt) ==
    \/ Truthy(e.container_id) /\ FoundById(rt, e.container_id)
    \/ TruthyName(e.container_name) /\ ByName(rt, e.container_name) # {}

\* C23: once startup_container_recovery has run to its end without a runtime
\* error, no entry is left for which no container can be resolved, entries
\* without container_id and entries with neither container_id nor
\* container_name included.
C23_NoUnresolvableEntryKept ==
    [][(/\ result'.op = "recovery"
        /\ result'.kind \in {"completed", "no_services"}
        /\ result'.faults = {}) =>
          \A i \in DOMAIN services' : Resolvable(services'[i], containers')]_vars

\* C24: every entry's status is one of running, stopped, unknown, failed.
C24_StatusInRange ==
    \A i \in DOMAIN services :
        services[i].status \in {"running", "stopped", "unknown", "failed"}

\* C39: the result of startup_container_recovery partitions the services it
\* processed: the results map has one entry for each service in the registry
\* after the initial reap and for nothing else, each entry is either a
\* recovered one (already running, restarted) or a failed one, recovered and
\* failed count them, and recovered + failed = total_services.
C39_ResultsPartition ==
    [][(result'.op = "recovery" /\ result'.kind = "completed") =>
          LET reap == cleanup_dead_services(services, containers, "recovery_reap",
                                            result'.faults)
              processed == Keys(reap.services)
              res == result'.results
          IN  /\ DOMAIN res = processed
              /\ \A k \in DOMAIN res :
                    res[k].status \in {"already_running", "restarted", "failed"}
              /\ result'.recovered =
                    Cardinality({k \in DOMAIN res :
                                    res[k].status \in {"already_running", "restarted"}})
              /\ result'.failed =
                    Cardinality({k \in DOMAIN res : res[k].status = "failed"})
              /\ result'.total = Cardinality(processed)
              /\ result'.recovered + result'.failed = result'.total]_vars

\* A recovery of two services: one restarted, the other failed.
C39_Witness ==
    /\ result.op = "recovery"
    /\ result.kind = "completed"
    /\ result.total = 2
    /\ result.recovered = 1
    /\ result.failed = 1
    /\ \E k \in DOMAIN result.results : result.results[k].status = "restarted"

\* ------------------------------------------------------------------------
\* SpecPort: get_free_port(start_port) on a host whose last ports and
\* ephemeral ports are held in every way a port can be held
\* ------------------------------------------------------------------------
\* The ports the calls below scan, and the ephemeral ports.
ProbePorts == <<65534, 65535, 32768, 32769>>

StartPorts == {65534, 65535}

\* Who holds a port: nobody; a process outside the launcher; a registered
\* service whose container has exited; a registered service whose container
\* is gone; a running container that is not registered; a registered
\* service with its running container.
PortHolders == {"free", "host", "registered", "dead", "published", "served"}

PortEntry(k, holder) ==
    LET name == InstanceName("buckets", k)
    IN  IF holder \in {"registered", "dead", "served"}
        THEN <<NewEntry(name, "buckets", name, ProbePorts[k], k, k)>>
        ELSE <<>>

PortContainer(k, holder) ==
    CASE holder = "registered" ->
            k :> [name |-> InstanceName("buckets", k), status |-> "exited",
                  port |-> ProbePorts[k]]
      [] holder = "served" ->
            k :> [name |-> InstanceName("buckets", k), status |-> "running",
                  port |-> ProbePorts[k]]
      [] holder = "published" ->
            k :> [name |-> <<"other", DecimalStr(k)>>, status |-> "running",
                  port |-> ProbePorts[k]]
      [] OTHER -> <<>>

InitPort ==
    /\ \E h \in [DOMAIN ProbePorts -> PortHolders] :
         /\ services = PortEntry(1, h[1]) \o PortEntry(2, h[2])
                          \o PortEntry(3, h[3]) \o PortEntry(4, h[4])
         /\ containers = PortContainer(1, h[1]) @@ PortContainer(2, h[2])
                            @@ PortContainer(3, h[3]) @@ PortContainer(4, h[4])
         /\ host_ports = {<<ProbePorts[k], ProbePorts[k]>> :
                              k \in {j \in DOMAIN ProbePorts : h[j] = "host"}}
    /\ registry_file = IF services = <<>> THEN NoFile ELSE json_dump(services)
    /\ next_cid = 5
    /\ docker_available = TRUE
    /\ result = NoResult
    /\ session = NoSession
    /\ assigned = <<>>
    /\ threads = <<>>
    /\ called = FALSE
    /\ stack = <<>>
    /\ phase = "serving"
    /\ invocations = 0
    /\ teardowns = 0

\* port = get_free_port(start_port)
GetFreePort(start_port) ==
    /\ \E faults \in UpTo(({"port_reap"} \X Keys(services))
                             \cup {<<"port_list", NoName>>}, MaxFaults) :
         \E free \in {get_free_port(services, containers, start_port, faults)} :
           \E port \in (IF free.raised \/ free.ports = {} THEN {None} ELSE free.ports) :
             /\ services' = free.services
             /\ registry_file' = SavedAfter(services')
             /\ result' = [NoResult EXCEPT !.op = "get_free_port",
                              !.kind = IF port = None THEN "raised" ELSE "returned",
                              !.total = start_port,
                              !.value = port,
                              !.faults = faults]
    /\ UNCHANGED <<terminalVars, runtimeVars, launchVars, shutdownVars>>

NextPort == \E start_port \in StartPorts : GetFreePort(start_port)

SpecPort == InitPort /\ [][NextPort]_vars

\* The ports from start_port on that get_free_port may take, given the
\* registry as its cleanup left it.
FreeFrom(start_port, svcs, rt) ==
    {p \in start_port..PortLimit :
        /\ p \notin get_used_ports(svcs)
        /\ p \notin PublishedPorts(rt)
        /\ is_port_available(rt, p)}

\* C25: get_free_port(start) returns the smallest port from start to 65535
\* that is not a registered service's port, not published by a running
\* container and bindable; only when there is none does it return a port the
\* operating system assigned.
C25_SmallestFreePort ==
    [][(result'.op = "get_free_port" /\ result'.kind = "returned") =>
          LET free == FreeFrom(result'.total, services', containers)
          IN  IF free # {}
              THEN /\ result'.value \in free
                   /\ \A p \in free : result'.value <= p
              ELSE result'.value \in OsAssignedPorts(containers)]_vars

\* A scan from 65534 passed 65535 and the operating system assigned the port.
C25_Witness ==
    /\ result.op = "get_free_port"
    /\ result.kind = "returned"
    /\ result.total = 65534
    /\ result.value \in EphemeralPorts

\* ------------------------------------------------------------------------
\* SpecLaunch: launches one after another while containers are
\* removed.  SpecBusyHost: the same on a host where other processes hold
\* every port from 8000 on but one.  SpecBackfill: launches of one template
\* and runs of startup_container_recovery while containers are removed.
\* ------------------------------------------------------------------------
NextLaunch ==
    \/ \E template \in Templates \cup {UnknownTemplate} : Launch(template)
    \/ \E c \in DOMAIN containers : ContainerRemoved(c)

SpecLaunch == InitCommon /\ [][NextLaunch]_vars

\* Other processes hold every port from 8000 to 65535 except 32768.
BusyHost == {<<8000, 32767>>, <<32769, PortLimit>>}

InitBusyHost ==
    /\ services = <<>>
    /\ registry_file = NoFile
    /\ containers = <<>>
    /\ next_cid = 1
    /\ host_ports = BusyHost
    /\ docker_available = TRUE
    /\ result = NoResult
    /\ session = NoSession
    /\ assigned = <<>>
    /\ threads = <<>>
    /\ called = FALSE
    /\ stack = <<>>
    /\ phase = "serving"
    /\ invocations = 0
    /\ teardowns = 0

NextBusyHost ==
    \/ \E template \in Templates \cup {UnknownTemplate} : Launch(template)
    \/ \E c \in DOMAIN containers : ContainerExits(c)

SpecBusyHost == InitBusyHost /\ [][NextBusyHost]_vars

NextBackfill ==
    \/ Launch("buckets")
    \/ Recovery
    \/ \E c \in DOMAIN containers : ContainerRemoved(c)

SpecBackfill == InitCommon /\ [][NextBackfill]_vars

\* A launch that registered a service.
LaunchSucceeds == result'.op = "launch" /\ result'.kind = "success"

\* C26: the port assigned to a newly registered service differs from the
\* port of every service in the registry at the moment of assignment, also
\* when the scan passed 65535 and the operating system assigned the port.
C26_AssignedPortNotRegistered ==
    [][LaunchSucceeds =>
          \A i \in DOMAIN services' :
              services'[i].service_id # result'.key
                  => services'[i].port # assigned'[Len(assigned')][3]]_vars

\* An entry of the registry as the call left it is an entry the registry
\* had, its status aside.
EntryKept(e) ==
    \E i \in DOMAIN services : e = [services[i] EXCEPT !.status = e.status]

C28_UnknownTemplateNoEffect ==
    [][(result'.op = "launch" /\ result'.template \notin Templates) =>
          /\ result'.kind = "template_not_found"
          /\ result'.returned.kind = "error"
          /\ result'.returned.names = Templates
          /\ result'.calls = {}
          /\ UNCHANGED <<services, registry_file, containers, next_cid, assigned>>]_vars

\* An unknown template was asked for while a registered service's container
\* is gone.
C28_Witness ==
    /\ result.op = "launch"
    /\ result.template = UnknownTemplate
    /\ \E i \in DOMAIN services :
         /\ Truthy(services[i].container_id)
         /\ ~FoundById(containers, services[i].container_id)

\* C29: when the discovery of the container id fails after a successful
\* launch the service is registered without container_id; and a run of
\* startup_container_recovery that finds the container under the entry's
\* container_name keeps the entry and writes that container's id into it.
C29_RegisteredThenBackfilled ==
    [][/\ (LaunchSucceeds /\ <<"discover", NoName>> \in result'.faults) =>
            /\ result'.key \in Keys(services')
            /\ get_service(services', result'.key).container_id = None
       /\ (result'.op = "recovery" /\ result'.kind = "completed") =>
            \A i \in DOMAIN services :
               (/\ ~Truthy(services[i].container_id)
                /\ ByName(containers, services[i].container_name) # {}
                /\ <<"get_name", services[i].service_id>> \notin result'.faults) =>
                  /\ services[i].service_id \in Keys(services')
                  /\ get_service(services', services[i].service_id).container_id
                        \in ByName(containers, services[i].container_name)]_vars

\* A service registered without container_id while its container runs.
C29_Witness ==
    /\ result.op = "launch"
    /\ result.kind = "success"
    /\ <<"discover", NoName>> \in result.faults
    /\ get_service(services, result.key).container_id = None
    /\ ByName(containers, get_service(services, result.key).container_name) # {}

\* ------------------------------------------------------------------------
\* Terminal bridge (terminal_ws.py): handle_terminal, one session
\* ------------------------------------------------------------------------
\* handle_terminal is called with the WebSocket of the /ws/terminal route
\* (server.py:479, Starlette: send_text, receive_text) and with the
\* connection of websockets.serve on port 8765 (terminal_server.py:9, which
\* has send and recv and no send_text).
Transports == {"starlette", "websockets"}

\* The container ids a client asks a terminal for: container 1, and an id
\* the runtime does not know.
TerminalPaths == {1, 2}

\* The runtime call of the setup that raises, if one does.
SetupFaults == {"none", "get", "exec_create", "exec_start"}

\* Bytes the shell writes: an ASCII letter, and the two bytes of U+00E9.
ShellBytes == {"a", "c3", "a9"}

\* Messages the client sends: strings of one character.
ClientMessages == {<<"x">>, <<"e_acute">>}

\* The echo commands handle_terminal writes to the shell before the loops.
SetupCommands == <<"echo">>

\* The lines handle_terminal sends when the container is not running, and
\* the banner of a session.
NotRunningLines == <<<<"ERROR: Cannot connect to terminal">>, <<"Available options">>>>
BannerLines == <<<<"=== Docker Terminal Session Started ===">>>>

\* data.decode(errors="ignore"): bytes that are not part of a complete
\* UTF-8 sequence within `bytes` are dropped.
RECURSIVE decode(_)
decode(bytes) ==
    IF bytes = <<>> THEN <<>>
    ELSE IF bytes[1] = "a" THEN <<"a">> \o decode(Tail(bytes))
    ELSE IF bytes[1] = "c3" /\ Len(bytes) >= 2 /\ bytes[2] = "a9"
         THEN <<"e_acute">> \o decode(SubSeq(bytes, 3, Len(bytes)))
    ELSE decode(Tail(bytes))

\* data.encode(): the UTF-8 bytes of a string.
RECURSIVE encode(_)
encode(text) ==
    IF text = <<>> THEN <<>>
    ELSE (IF text[1] = "e_acute" THEN <<"c3", "a9">> ELSE <<text[1]>>)
             \o encode(Tail(text))

InitTerminal ==
    /\ services = <<>>
    /\ registry_file = NoFile
    /\ \E status \in {"running", "exited"} :
         containers = (1 :> [name |-> InstanceName("buckets", 1), status |-> status,
                             port |-> base_port_preference("buckets")])
    /\ next_cid = 2
    /\ host_ports = {}
    /\ docker_available = TRUE
    /\ result = NoResult
    /\ \E transport \in Transports : session = [NoSession EXCEPT !.transport = transport]
    /\ assigned = <<>>
    /\ threads = <<>>
    /\ called = FALSE
    /\ stack = <<>>
    /\ phase = "serving"
    /\ invocations = 0
    /\ teardowns = 0

TerminalFrame == UNCHANGED <<registryVars, runtimeVars, launchVars, shutdownVars, result>>

\* await websocket.send_text(text) for each of `texts`: raises
\* AttributeError on a websockets connection, and raises when the client is
\* gone; the rest of the lines is then not sent.
send_text(s, texts) ==
    IF s.transport = "websockets" \/ s.client = "gone"
    THEN [session |-> s, raised |-> TRUE]
    ELSE [session |-> [s EXCEPT !.sent = @ \o texts], raised |-> FALSE]

\* websocket.close() and the end of the handler.
ClosedSession(s) == [s EXCEPT !.handler = "returned", !.websocket = "closed"]

\* The setup from exec_create on, for a running container.
StartSession(s, fault) ==
    IF fault = "exec_create"
    THEN ClosedSession(s)
    ELSE IF fault = "exec_start"
    THEN ClosedSession([s EXCEPT !.exec_created = TRUE])
    ELSE LET started == [s EXCEPT !.exec_created = TRUE, !.exec_socket = "open"]
             banner == send_text(started, BannerLines)
         IN  IF banner.raised
             THEN ClosedSession(banner.session)
             ELSE [banner.session EXCEPT !.handler = "relaying",
                                         !.exec_in = @ \o SetupCommands,
                                         !.container_to_ws = "reading",
                                         !.ws_to_container = "receiving"]

\* handle_terminal up to asyncio.gather: the container is looked up and has
\* to be running, the exec session is created and started, the banner is
\* sent and the two loops start.  An exception anywhere ends in the outer
\* handler: websocket.close().
HandleTerminal(container_id, fault) ==
    /\ session.handler = "idle"
    /\ session' =
         LET s == [session EXCEPT !.container_id = container_id, !.fault = fault]
         IN  IF fault = "get" \/ ~FoundById(containers, container_id)
             THEN ClosedSession(s)
             ELSE IF containers[container_id].status # "running"
             THEN ClosedSession(send_text(s, NotRunningLines).session)
             ELSE StartSession(s, fault)
    /\ TerminalFrame

\* The shell writes a byte to its terminal.
ShellWrites(b) ==
    /\ session.exec_socket = "open"
    /\ Len(session.read) + Len(session.exec_out) < MaxRelay
    /\ session' = [session EXCEPT !.exec_out = Append(@, b)]
    /\ TerminalFrame

\* container_to_ws: recv returned the first n bytes the shell wrote;
\* send_text relays their decoding, or raises and the loop breaks.
ContainerToWsData(n) ==
    /\ session.container_to_ws = "reading"
    /\ n \in 1..Len(session.exec_out)
    /\ LET data == SubSeq(session.exec_out, 1, n)
           taken == [session EXCEPT !.exec_out = SubSeq(@, n + 1, Len(@)),
                                    !.read = @ \o data]
           relayed == send_text(taken, <<decode(data)>>)
       IN  session' = IF relayed.raised
                      THEN [taken EXCEPT !.container_to_ws = "ended",
                               !.printed = @ \cup {"Error in container_to_ws: send_text"}]
                      ELSE relayed.session
    /\ TerminalFrame

\* container_to_ws: recv returned b"" (the exec stream is closed and
\* drained): break.
ContainerToWsEof ==
    /\ session.container_to_ws = "reading"
    /\ session.exec_socket = "closed"
    /\ session.exec_out = <<>>
    /\ session' = [session EXCEPT !.container_to_ws = "ended",
                                  !.printed = @ \cup {"No more data from container"}]
    /\ TerminalFrame

\* container_to_ws: recv raised (transport error): break.
ContainerToWsError ==
    /\ session.container_to_ws = "reading"
    /\ session' = [session EXCEPT !.container_to_ws = "ended",
                                  !.printed = @ \cup {"Error in container_to_ws: recv"}]
    /\ TerminalFrame

\* The client sends a message.
ClientSends(text) ==
    /\ session.handler = "relaying"
    /\ session.client = "connected"
    /\ Len(session.got) + Len(session.ws_in) < MaxRelay
    /\ session' = [session EXCEPT !.ws_in = Append(@, text)]
    /\ TerminalFrame

\* ws_to_container: receive_text returned the next message; the send to the
\* exec socket writes its bytes, or (`raises`, when the stream is closed)
\* raises and the loop breaks.
WsToContainerData(raises) ==
    /\ session.ws_to_container = "receiving"
    /\ session.ws_in # <<>>
    /\ raises => session.exec_socket = "closed"
    /\ LET data == Head(session.ws_in)
           taken == [session EXCEPT !.ws_in = Tail(@), !.got = Append(@, data)]
       IN  session' = IF raises
                      THEN [taken EXCEPT !.ws_to_container = "ended",
                               !.printed = @ \cup {"Error in ws_to_container: send"}]
                      ELSE IF session.exec_socket = "open"
                      THEN [taken EXCEPT !.exec_in = @ \o encode(data)]
                      ELSE taken
    /\ TerminalFrame

\* ws_to_container: receive_text raised because the client disconnected: break.
WsToContainerDisconnect ==
    /\ session.ws_to_container = "receiving"
    /\ session.client = "gone"
    /\ session.ws_in = <<>>
    /\ session' = [session EXCEPT !.ws_to_container = "ended",
                                  !.printed = @ \cup {"Error in ws_to_container: disconnect"}]
    /\ TerminalFrame

\* ws_to_container: receive_text raised (transport error): break.
WsToContainerError ==
    /\ session.ws_to_container = "receiving"
    /\ session' = [session EXCEPT !.ws_to_container = "ended",
                                  !.printed = @ \cup {"Error in ws_to_container: receive_text"}]
    /\ TerminalFrame

\* await asyncio.gather(container_to_ws(), ws_to_container()) returns when
\* both loops have ended; the handler returns, and the server closes the
\* connection of a handler that has returned.
GatherReturns ==
    /\ session.handler = "relaying"
    /\ session.container_to_ws = "ended"
    /\ session.ws_to_container = "ended"
    /\ session' = ClosedSession(session)
    /\ TerminalFrame

\* The shell in the container exits: the exec stream closes.
ExecCloses ==
    /\ session.handler = "relaying"
    /\ session.exec_socket = "open"
    /\ session' = [session EXCEPT !.exec_socket = "closed"]
    /\ TerminalFrame

\* The client goes away.
ClientDisconnects ==
    /\ session.handler = "relaying"
    /\ session.client = "connected"
    /\ session' = [session EXCEPT !.client = "gone"]
    /\ TerminalFrame

NextTerminal ==
    \/ \E container_id \in TerminalPaths, fault \in SetupFaults :
          HandleTerminal(container_id, fault)
    \/ \E b \in ShellBytes : ShellWrites(b)
    \/ \E n \in 1..MaxRelay : ContainerToWsData(n)
    \/ ContainerToWsEof
    \/ ContainerToWsError
    \/ \E text \in ClientMessages : ClientSends(text)
    \/ \E raises \in BOOLEAN : WsToContainerData(raises)
    \/ WsToContainerDisconnect
    \/ WsToContainerError
    \/ GatherReturns
    \/ ExecCloses
    \/ ClientDisconnects

SpecTerminal == InitTerminal /\ [][NextTerminal]_vars

\* The event loop runs what is ready: a loop whose read has data, an end
\* of stream or a disconnect to deliver gets it, and gather returns once
\* both loops have ended.  Whether the shell writes or exits and whether
\* the client sends or leaves is up to them.
SpecTerminalLive ==
    /\ SpecTerminal
    /\ WF_vars(\E n \in 1..MaxRelay : ContainerToWsData(n))
    /\ WF_vars(\E raises \in BOOLEAN : WsToContainerData(raises))
    /\ WF_vars(ContainerToWsEof)
    /\ WF_vars(WsToContainerDisconnect)
    /\ WF_vars(GatherReturns)

\* C30: once either relay loop has ended, the other one ends too and the
\* client channel is closed; no loop is left running or waiting for ever.
C30_EitherLoopEndsBoth ==
    (session.container_to_ws = "ended" \/ session.ws_to_container = "ended")
        ~> (/\ session.container_to_ws = "ended"
            /\ session.ws_to_container = "ended"
            /\ session.websocket = "closed")

\* handle_terminal ran its setup in this step.
SetupStep == session.handler = "idle" /\ session'.handler # "idle"

\* C31: asked for a container that is not running, the bridge sends a
\* descriptive message, closes the channel and creates no exec session.
C31_NotRunningRejected ==
    [][(/\ SetupStep
        /\ session'.fault # "get"
        /\ FoundById(containers, session'.container_id)
        /\ containers[session'.container_id].status # "running") =>
          /\ session'.sent # <<>>
          /\ session'.websocket = "closed"
          /\ ~session'.exec_created]_vars

\* C32: a setup that fails (container not found, runtime error resolving
\* it, exec creation or exec start failing) sends a diagnostic message
\* before it closes the channel.
C32_SetupErrorHasMessage ==
    [][(/\ SetupStep
        /\ \/ session'.fault # "none"
           \/ ~FoundById(containers, session'.container_id)) =>
          /\ session'.websocket = "closed"
          /\ session'.sent # <<>>]_vars

\* Flatten a sequence of strings.
RECURSIVE Concat(_)
Concat(texts) == IF texts = <<>> THEN <<>> ELSE texts[1] \o Concat(Tail(texts))

\* C33: while the session is open, the client has been sent the text of the
\* bytes read from the exec stream, in order, nothing lost or doubled; and
\* the exec stream has been written the bytes of the messages received from
\* the client, in order, nothing lost or doubled.
C33_RelayedInOrder ==
    (/\ session.handler = "relaying"
     /\ session.container_to_ws = "reading"
     /\ session.ws_to_container = "receiving"
     /\ session.exec_socket = "open"
     /\ session.client = "connected") =>
        /\ Concat(SubSeq(session.sent, Len(BannerLines) + 1, Len(session.sent)))
             = decode(session.read)
        /\ SubSeq(session.exec_in, Len(SetupCommands) + 1, Len(session.exec_in))
             = encode(Concat(session.got))

\* ------------------------------------------------------------------------
\* SpecPersist: the registry and its file over registry calls, saves that
\* fail, a process that stops or dies while saving, and the next process
\* that loads the file
\* ------------------------------------------------------------------------
PersistIds == {<<"svc", "a">>, <<"svc", "b">>}

\* Container 1 exists and has exited; container 2 does not exist.
InitPersist ==
    /\ services = <<>>
    /\ registry_file = NoFile
    /\ containers = (1 :> [name |-> <<"svc", "a">>, status |-> "exited", port |-> 8000])
    /\ next_cid = 3
    /\ host_ports = {}
    /\ docker_available = TRUE
    /\ result = NoResult
    /\ session = NoSession
    /\ assigned = <<>>
    /\ threads = <<>>
    /\ called = FALSE
    /\ stack = <<>>
    /\ phase = "serving"
    /\ invocations = 0
    /\ teardowns = 0

\* A registry call returns: self.services is `after`, and docs are the
\* registries it saved, each save going one of the ways a save can go.
Returns(op, key, value, kwargs, after, docs) ==
    /\ phase = "serving"
    /\ \E outcomes \in OutcomeSeqs(docs) :
         /\ registry_file' = SaveAll(registry_file, docs, outcomes, Len(docs))
         /\ result' = [NoResult EXCEPT !.op = op, !.key = key, !.value = value,
                          !.results = kwargs, !.total = Len(docs),
                          !.kind = IF docs = <<>> THEN "no_save"
                                   ELSE outcomes[Len(docs)][1]]
    /\ services' = after
    /\ UNCHANGED <<terminalVars, runtimeVars, launchVars, shutdownVars>>

\* The process dies inside the one _save_registry of a call: after
\* open(file, "w") truncated the file, with k entries written, or with the
\* whole document written.  results records the registry being saved.
Crashes(op, key, docs) ==
    /\ phase = "serving"
    /\ Len(docs) = 1
    /\ registry_file' \in {PartialWrite(docs[1], k) : k \in 0..Len(docs[1])}
                             \cup {json_dump(docs[1])}
    /\ services' = <<>>
    /\ phase' = "down"
    /\ result' = [NoResult EXCEPT !.op = "crash", !.kind = op, !.key = key,
                                  !.results = docs[1]]
    /\ UNCHANGED <<terminalVars, runtimeVars, launchVars, called, stack, invocations, teardowns>>

PersistRegister(service_id, container_id) ==
    \E after \in {register_service(services, service_id, "buckets", service_id,
                                    8000, None, container_id)} :
        \/ Returns("register", service_id, None, <<>>, after, <<after>>)
        \/ Crashes("register", service_id, <<after>>)

PersistUnregister(service_id) ==
    \E after \in {unregister_service(services, service_id)} :
        \E docs \in {IF service_id \in Keys(services) THEN <<after>> ELSE <<>>} :
            \/ Returns("unregister", service_id, None, <<>>, after, docs)
            \/ Crashes("unregister", service_id, docs)

PersistUpdate(service_id, kwargs) ==
    \E after \in {update_service(services, service_id, kwargs)} :
        \E docs \in {IF service_id \in Keys(services) THEN <<after>> ELSE <<>>} :
            \/ Returns("update", service_id,
                       IF update_service_ok(services, service_id) THEN 1 ELSE 0,
                       kwargs, after, docs)
            \/ Crashes("update", service_id, docs)

PersistClearAll ==
    \/ Returns("clear_all", NoName, None, <<>>, clear_all(services), <<clear_all(services)>>)
    \/ Crashes("clear_all", NoName, <<clear_all(services)>>)

PersistCleanupDead ==
    \E reap \in {cleanup_dead_services(services, containers, "reap", {})} :
        Returns("cleanup_dead_services", NoName, None, <<>>, reap.services,
                cleanup_saves(services, containers))

\* The process ends without a save in progress.
ProcessStops ==
    /\ phase = "serving"
    /\ phase' = "down"
    /\ services' = <<>>
    /\ result' = [NoResult EXCEPT !.op = "stop"]
    /\ UNCHANGED <<terminalVars, registry_file, runtimeVars, launchVars, called, stack,
                   invocations, teardowns>>

\* registry = ServiceRegistry() at import: the file is loaded; an error
\* that leaves _load_registry ends the start.
ProcessStarts ==
    /\ phase = "down"
    /\ \E loaded \in {load_registry(registry_file)} :
         /\ services' = loaded.services
         /\ phase' = IF loaded.raised THEN "down" ELSE "serving"
         /\ result' = [NoResult EXCEPT !.op = "load",
                          !.kind = IF loaded.raised THEN "raised" ELSE "loaded"]
    /\ UNCHANGED <<terminalVars, registry_file, runtimeVars, launchVars, called, stack,
                   invocations, teardowns>>

\* Between two processes, something outside the program deletes the file,
\* takes its read permission away, or overwrites it with bytes that are not
\* text.
FileDamaged(kind) ==
    /\ phase = "down"
    /\ registry_file.kind # kind
    /\ registry_file' = DamagedFile(kind)
    /\ result' = [NoResult EXCEPT !.op = "env"]
    /\ UNCHANGED <<terminalVars, services, runtimeVars, launchVars, shutdownVars>>

UpdateKwargs == {[status |-> "stopped", health |-> "ok"]}

NextPersist ==
    \/ \E service_id \in PersistIds, container_id \in {1, 2} :
          PersistRegister(service_id, container_id)
    \/ \E service_id \in PersistIds : PersistUnregister(service_id)
    \/ \E service_id \in PersistIds, kwargs \in UpdateKwargs :
          PersistUpdate(service_id, kwargs)
    \/ PersistClearAll
    \/ PersistCleanupDead
    \/ ProcessStops
    \/ ProcessStarts
    \/ \E kind \in FileKinds \ {"text"} : FileDamaged(kind)

SpecPersist == InitPersist /\ [][NextPersist]_vars

\* A mutating registry call that saved returns.
MutatingReturn ==
    /\ result'.op \in {"register", "unregister", "update", "clear_all",
                        "cleanup_dead_services"}
    /\ result'.kind # "no_save"

\* What a process that starts now would load.
Reloaded(file) == load_registry(file)

\* C15 as stated: when a mutating registry call returns, the file holds the
\* in-memory registry, so that a restart would load exactly it.
C15_PersistedEqualsMemory ==
    [][MutatingReturn =>
          Reloaded(registry_file') = [services |-> services', raised |-> FALSE]]_vars

\* C15 amended: when a mutating registry call returns and its last save did
\* not fail, the file holds the in-memory registry, so that a restart would
\* load exactly it.
C15_PersistedEqualsMemoryWhenSaved ==
    [][(MutatingReturn /\ result'.kind = "ok") =>
          /\ registry_file' = json_dump(services')
          /\ Reloaded(registry_file') = [services |-> services', raised |-> FALSE]]_vars

\* cleanup_dead_services saved twice, the second time without failure, and
\* the file holds the registry it left.
C15_Witness ==
    /\ result.op = "cleanup_dead_services"
    /\ result.kind = "ok"
    /\ result.total = 2
    /\ services # <<>>
    /\ Reloaded(registry_file).services = services

\* C16: when the process dies during a save, the file is worth the
\* complete document of before the call or the complete document of the
\* registry being saved: a restart loads one of the two registries, and so
\* every service that is in both.
C16_AtomicReplace ==
    [][result'.op = "crash" =>
          /\ Reloaded(registry_file') \in
                {Reloaded(registry_file),
                 [services |-> result'.results, raised |-> FALSE]}
          /\ (Keys(Reloaded(registry_file).services) \cap Keys(result'.results))
                \subseteq Keys(Reloaded(registry_file').services)]_vars

\* C17: loading never fails: a file that is missing, unreadable or corrupt
\* gives an empty registry and the process starts; and a call whose save
\* failed returns with the mutation in memory.
C17_LoadAndSaveNeverFail ==
    [][/\ result'.op = "load" =>
             /\ result'.kind = "loaded"
             /\ phase' = "serving"
             /\ (registry_file.kind # "text" \/ ~registry_file.complete) =>
                    services' = <<>>
       /\ (MutatingReturn /\ result'.kind \in {"open_failed", "write_failed"}) =>
             /\ result'.op = "register" => result'.key \in Keys(services')
             /\ result'.op = "unregister" => result'.key \notin Keys(services')
             /\ result'.op = "clear_all" => services' = <<>>]_vars

\* C19: update_service of an id that is not registered returns False and
\* changes nothing; of a registered id it returns True, sets the given
\* fields of that entry, and leaves its other fields and every other entry
\* as they were.
C19_UpdateFrame ==
    [][result'.op = "update" =>
          LET service_id == result'.key
              kwargs == result'.results
          IN  IF service_id \notin Keys(services)
              THEN result'.value = 0 /\ services' = services
              ELSE /\ result'.value = 1
                   /\ Len(services') = Len(services)
                   /\ \A i \in DOMAIN services :
                         IF services[i].service_id # service_id
                         THEN services'[i] = services[i]
                         ELSE /\ DOMAIN services'[i]
                                    = DOMAIN services[i] \cup DOMAIN kwargs
                              /\ \A f \in DOMAIN kwargs : services'[i][f] = kwargs[f]
                              /\ \A f \in DOMAIN services[i] \ DOMAIN kwargs :
                                    services'[i][f] = services[i][f]]_vars

\* One of two registered services was updated: it has the new status and
\* the new field, the other has neither.
C19_Witness ==
    /\ result.op = "update"
    /\ result.value = 1
    /\ Len(services) = 2
    /\ \E i, j \in DOMAIN services :
         /\ services[i].service_id = result.key
         /\ services[i].status = "stopped"
         /\ "health" \in DOMAIN services[i]
         /\ services[j].status = "running"
         /\ "health" \notin DOMAIN services[j]

\* C18: register_service with a service_id that is already present fails
\* with DuplicateService and leaves the registry as it was.
C18_DuplicateRejected ==
    [][(result'.op = "register" /\ result'.key \in Keys(services)) =>
          /\ result'.kind = "DuplicateService"
          /\ services' = services]_vars

\* C20: unregister_service of an id that is not registered changes neither
\* the registry nor its file, and unregistering an id a second time leaves
\* the registry the first call left.
C20_UnregisterIdempotent ==
    [][result'.op = "unregister" =>
          /\ result'.key \notin Keys(services) =>
                services' = services /\ registry_file' = registry_file
          /\ result'.key \notin Keys(services')
          /\ unregister_service(services', result'.key) = services']_vars

\* An id that is not registered was unregistered while other services were.
C20_Witness ==
    /\ result.op = "unregister"
    /\ result.kind = "absent"
    /\ Len(services) >= 2

\* ------------------------------------------------------------------------
\* Service manager (service_manager.py) and the cleanup operations of
\* container_recovery.py
\* ------------------------------------------------------------------------
\* The `if remove_container:` block of remove_service: the container is
\* looked up by id, or by name when the entry has no id, stopped when it
\* runs and removed.  NotFound counts as removed; any other error is kept
\* as container_error.
RemoveContainerOf(st, service, faults) ==
    LET service_id == service.service_id
        container_id == service.container_id
        container_name == service.container_name
        rt == st.containers
        found == IF Truthy(container_id)
                 THEN IF FoundById(rt, container_id) THEN {container_id} ELSE {}
                 ELSE ByName(rt, container_name)
    IN  IF ~(Truthy(container_id) \/ TruthyName(container_name)) \/ ~docker_available
        THEN st
        ELSE IF <<"get", service_id>> \in faults
        THEN [st EXCEPT !.container_error = TRUE]
        ELSE IF found = {}
        THEN [st EXCEPT !.container_removed = TRUE, !.message = "already_removed"]
        ELSE LET container == CHOOSE c \in found : TRUE
                 running == rt[container].status = "running"
                 stopping == IF running
                             THEN [st EXCEPT !.calls = @ \cup {<<"stop", container>>}]
                             ELSE st
                 stopped == IF running
                            THEN [stopping EXCEPT !.containers[container].status = "exited"]
                            ELSE stopping
                 removing == [stopped EXCEPT !.calls = @ \cup {<<"remove", container>>}]
             IN  IF running /\ <<"stop", service_id>> \in faults
                 THEN [stopping EXCEPT !.container_error = TRUE]
                 ELSE IF <<"remove", service_id>> \in faults
                 THEN [removing EXCEPT !.container_error = TRUE]
                 ELSE [removing EXCEPT !.containers = RemoveContainer(@, container),
                                       !.container_removed = TRUE,
                                       !.message = "container_removed"]

\* Lines 114-121 of remove_service: the entry leaves the registry whatever
\* happened to the container.
RemoveFromRegistry_unless_error(st, service_id) ==
    IF st.container_error THEN st
    ELSE [st EXCEPT !.services = unregister_service(@, service_id),
                    !.service_removed = TRUE,
                    !.message = IF @ = "none" THEN "removed_from_registry" ELSE @]

RemoveFromRegistry(st, service_id) ==
    [st EXCEPT !.services = unregister_service(@, service_id),
               !.service_removed = TRUE,
               !.message = IF @ = "none" THEN "removed_from_registry" ELSE @]

\* remove_service(service_id, remove_container): the registry and the
\* runtime afterwards, and the fields of the dict returned (kind "error" for
\* {"error": ...}).
remove_service(svcs, rt, service_id, remove_container, faults) ==
    LET start == [services |-> svcs, containers |-> rt, kind |-> "results",
                  service_removed |-> FALSE, container_removed |-> FALSE,
                  container_error |-> FALSE, message |-> "none", calls |-> {}]
    IN  IF service_id \notin Keys(svcs)
        THEN [start EXCEPT !.kind = "error"]
        ELSE The({RemoveFromRegistry(st, service_id) :
                    st \in {IF remove_container
                            THEN RemoveContainerOf(start, get_service(svcs, service_id),
                                                   faults)
                            ELSE start}})

\* container_operations.stop_container(container_id): NotFound and
\* DockerException both become {"error": ...}.
stop_container(rt, container_id, service_id, faults) ==
    IF ~docker_available
    THEN [containers |-> rt, kind |-> "error", detail |-> "unavailable"]
    ELSE IF <<"get", service_id>> \in faults
    THEN [containers |-> rt, kind |-> "error", detail |-> "runtime"]
    ELSE IF ~FoundById(rt, container_id)
    THEN [containers |-> rt, kind |-> "error", detail |-> "not_found"]
    ELSE IF rt[container_id].status = "exited"
    THEN [containers |-> rt, kind |-> "message", detail |-> "already_stopped"]
    ELSE IF <<"stop", service_id>> \in faults
    THEN [containers |-> rt, kind |-> "error", detail |-> "runtime"]
    ELSE [containers |-> [rt EXCEPT ![container_id].status = "exited"],
          kind |-> "message", detail |-> "stopped"]

\* Lines 43-58 of stop_service, once the container id is known.
StopById(svcs, rt, service_id, container_id, faults) ==
    The({[services |-> IF stopped.kind = "error" THEN svcs
                       ELSE update_service(svcs, service_id, [status |-> "stopped"]),
          containers |-> stopped.containers,
          kind |-> stopped.kind, detail |-> stopped.detail] :
            stopped \in {stop_container(rt, container_id, service_id, faults)}})

\* stop_service(service_id).  The lookup by name of an entry without
\* container_id catches NotFound only (kind "raised" when another error
\* leaves the call).
stop_service(svcs, rt, service_id, faults) ==
    LET same == [services |-> svcs, containers |-> rt, kind |-> "error",
                 detail |-> "none"]
    IN  IF service_id \notin Keys(svcs)
        THEN [same EXCEPT !.detail = "not_in_registry"]
        ELSE LET service == get_service(svcs, service_id)
                 container_id == service.container_id
                 container_name == service.container_name
             IN  IF Truthy(container_id)
                 THEN StopById(svcs, rt, service_id, container_id, faults)
                 ELSE IF ~(TruthyName(container_name) /\ docker_available)
                 THEN [same EXCEPT !.detail = "no_container_information"]
                 ELSE IF <<"get_name", service_id>> \in faults
                 THEN [same EXCEPT !.kind = "raised"]
                 ELSE IF ByName(rt, container_name) = {}
                 THEN [same EXCEPT !.services = unregister_service(@, service_id),
                                   !.detail = "container_not_found"]
                 ELSE StopById(svcs, rt, service_id,
                               CHOOSE c \in ByName(rt, container_name) : TRUE, faults)

\* Lines 176-207 of get_service_info: the live_status added to the copy of
\* the entry.
LiveStatus(service, rt, faults) ==
    LET container_id == service.container_id
        container_name == service.container_name
        found == IF Truthy(container_id)
                 THEN IF FoundById(rt, container_id) THEN {container_id} ELSE {}
                 ELSE ByName(rt, container_name)
    IN  IF ~(docker_available /\ (Truthy(container_id) \/ TruthyName(container_name)))
        THEN "none"
        ELSE IF <<"get", service.service_id>> \in faults THEN "error"
        ELSE IF found = {} THEN "container_not_found"
        ELSE rt[CHOOSE c \in found : TRUE].status

\* get_service_info(service_id): cleanup_dead_services first, outside any
\* try.
get_service_info(svcs, rt, service_id, faults) ==
    The({[services |-> reap.services,
          kind |-> IF reap.raised THEN "raised"
                   ELSE IF service_id \notin Keys(reap.services) THEN "error"
                   ELSE "service",
          detail |-> IF reap.raised \/ service_id \notin Keys(reap.services) THEN "none"
                     ELSE LiveStatus(get_service(reap.services, service_id), rt, faults)] :
            reap \in {cleanup_dead_services(svcs, rt, "reap", faults)}})

\* list_running_services(template); "" stands for no template.
list_running_services(svcs, rt, template, faults) ==
    The({[services |-> reap.services,
          kind |-> IF reap.raised THEN "raised" ELSE "services",
          names |-> IF reap.raised THEN {}
                    ELSE IF template # "" THEN Keys(list_services(reap.services, template))
                    ELSE Keys(reap.services)] :
            reap \in {cleanup_dead_services(svcs, rt, "reap", faults)}})

\* The structured result of an operation that finds the runtime missing:
\* {"error": "Docker is not available"}.
Unavailable(svcs, rt) ==
    [services |-> svcs, containers |-> rt, kind |-> "unavailable",
     services_cleaned |-> 0, containers_removed |-> 0, errors |-> 0,
     registry_cleared |-> FALSE, calls |-> {}]

\* Lines 316-343 of auto_cleanup_services: the exited and dead containers
\* whose name a registry entry carries are removed; their entries stay.
RemoveManaged(st, faults) ==
    LET managed == {st.services[i].container_name :
                       i \in {j \in DOMAIN st.services :
                                 TruthyName(st.services[j].container_name)}}
        rt == st.containers
        dead == {c \in DOMAIN rt : /\ rt[c].name \in managed
                                   /\ rt[c].status \in {"exited", "dead"}}
        failing == {c \in dead : <<"remove", rt[c].name>> \in faults}
    IN  IF <<"list", NoName>> \in faults
        THEN [st EXCEPT !.errors = @ + 1]
        ELSE [st EXCEPT !.containers = [c \in DOMAIN rt \ (dead \ failing) |-> rt[c]],
                        !.containers_removed = Cardinality(dead \ failing),
                        !.errors = Cardinality(failing),
                        !.calls = {<<"remove", c>> : c \in dead}]

auto_cleanup_services_unguarded(svcs, rt, faults) ==
    The({IF reap.raised
         THEN [Unavailable(reap.services, rt) EXCEPT !.kind = "raised"]
         ELSE RemoveManaged([Unavailable(reap.services, rt) EXCEPT !.kind = "report"],
                            faults) :
            reap \in {ReapLoop(svcs, rt, "reap", faults, Len(svcs))}})

\* auto_cleanup_services()
auto_cleanup_services(svcs, rt, faults) ==
    IF ~docker_available
    THEN Unavailable(svcs, rt)
    ELSE The({IF reap.raised
              THEN [Unavailable(reap.services, rt) EXCEPT !.kind = "raised"]
              ELSE RemoveManaged([Unavailable(reap.services, rt) EXCEPT !.kind = "report"],
                                 faults) :
                 reap \in {cleanup_dead_services(svcs, rt, "reap", faults)}})

\* The loop of force_cleanup_all_services over the first n keys of the
\* snapshot: remove_service(service_id, remove_container=True) for each.
RECURSIVE ForceLoop(_, _, _, _)
ForceLoop(st, snapshot, faults, n) ==
    IF n = 0 THEN st
    ELSE The({The({[prev EXCEPT
                       !.services = r.services,
                       !.containers = r.containers,
                       !.services_cleaned = IF r.service_removed THEN @ + 1 ELSE @,
                       !.containers_removed = IF r.container_removed THEN @ + 1 ELSE @,
                       !.errors = IF r.container_error THEN @ + 1 ELSE @,
                       !.calls = @ \cup r.calls] :
                      r \in {remove_service(prev.services, prev.containers,
                                            snapshot[n].service_id, TRUE, faults)}}) :
                 prev \in {ForceLoop(st, snapshot, faults, n - 1)}})

\* force_cleanup_all_services(): every service removed, the registry
\* cleared, the orphaned containers swept.
force_cleanup_all_services(svcs, rt, faults) ==
    IF ~docker_available
    THEN Unavailable(svcs, rt)
    ELSE The({The({[loop EXCEPT !.services = clear_all(@),
                                !.registry_cleared = TRUE,
                                !.containers = sweep.containers,
                                !.calls = @ \cup sweep.calls] :
                      sweep \in {cleanup_orphaned_containers(loop.containers, faults)}}) :
                 loop \in {ForceLoop([Unavailable(svcs, rt) EXCEPT !.kind = "report"],
                                     svcs, faults, Len(svcs))}})

\* status["would_remove"] of get_cleanup_status: for each entry, whether its
\* container exists and its status.
WouldRemove(svcs, rt, faults) ==
    [i \in DOMAIN svcs |->
        The({[service_id |-> svcs[i].service_id,
              container_exists |-> live \notin {"none", "error", "container_not_found"},
              container_status |-> IF live = "none" THEN "unknown"
                                   ELSE IF live = "container_not_found" THEN "not_found"
                                   ELSE live] :
                live \in {LiveStatus(svcs[i], rt, faults)}})]

\* status["orphaned_containers"]: the containers with one of our names that
\* no entry carries by name or by id.
OrphanedContainers(svcs, rt) ==
    {c \in DOMAIN rt :
        /\ MatchesNaming(rt[c].name)
        /\ ~\E i \in DOMAIN svcs : \/ svcs[i].container_name = rt[c].name
                                   \/ svcs[i].container_id = c}

\* get_cleanup_status(): reads the registry and the runtime.
get_cleanup_status(svcs, rt, faults) ==
    IF ~docker_available
    THEN [kind |-> "unavailable", registered_services |-> 0, would_remove |-> <<>>,
          orphaned_containers |-> {}, orphaned_check_error |-> FALSE]
    ELSE [kind |-> "status", registered_services |-> Len(svcs),
          would_remove |-> WouldRemove(svcs, rt, faults),
          orphaned_containers |-> IF <<"list", NoName>> \in faults THEN {}
                                  ELSE OrphanedContainers(svcs, rt),
          orphaned_check_error |-> <<"list", NoName>> \in faults]

\* ------------------------------------------------------------------------
\* SpecLifecycle: the lifecycle and cleanup operations, reconciliation and
\* graceful_shutdown called by the program, on a process that found the
\* runtime at import or did not
\* ------------------------------------------------------------------------
\* A service id no entry has.
AbsentId == <<"cache", "instance", "1">>

\* What the process finds for one service.
LifecycleSituations == {"absent", "running", "exited", "gone", "no_id"}

InitLifecycle ==
    /\ \E s1 \in LifecycleSituations, s2 \in LifecycleSituations :
         /\ services = SituationEntry("buckets", 1, s1) \o SituationEntry("db", 2, s2)
         /\ containers = SituationContainer("buckets", 1, s1)
                            @@ SituationContainer("db", 2, s2)
    /\ registry_file = IF services = <<>> THEN NoFile ELSE json_dump(services)
    /\ next_cid = 5
    /\ host_ports = {}
    /\ docker_available \in BOOLEAN
    /\ result = NoResult
    /\ session = NoSession
    /\ assigned = <<>>
    /\ threads = <<>>
    /\ called = FALSE
    /\ stack = <<>>
    /\ phase = "serving"
    /\ invocations = 0
    /\ teardowns = 0

\* The program is not inside graceful_shutdown.
Serving == phase = "serving" /\ stack = <<>>

LifecycleIds == Keys(services) \cup {AbsentId}

LifecycleFaultSets(sites) ==
    UpTo((sites \X Keys(services)) \cup {<<"list", NoName>>}, MaxFaults)

RemoveService(service_id, remove_container) ==
    /\ Serving
    /\ \E faults \in LifecycleFaultSets({"get", "stop", "remove"}) :
         \E r \in {remove_service(services, containers, service_id, remove_container,
                                  faults)} :
             /\ services' = r.services
             /\ registry_file' = SavedAfter(services')
             /\ containers' = r.containers
             /\ result' = [NoResult EXCEPT !.op = "remove_service", !.kind = r.kind,
                              !.key = service_id, !.calls = r.calls, !.faults = faults,
                              !.returned = [service_removed |-> r.service_removed,
                                            container_removed |-> r.container_removed,
                                            container_error |-> r.container_error,
                                            message |-> r.message]]
    /\ UNCHANGED <<terminalVars, next_cid, host_ports, docker_available, launchVars,
                   shutdownVars>>

StopService(service_id) ==
    /\ Serving
    /\ \E faults \in LifecycleFaultSets({"get", "get_name", "stop"}) :
         \E r \in {stop_service(services, containers, service_id, faults)} :
             /\ services' = r.services
             /\ registry_file' = SavedAfter(services')
             /\ containers' = r.containers
             /\ result' = [NoResult EXCEPT !.op = "stop_service", !.kind = r.kind,
                              !.key = service_id, !.faults = faults,
                              !.returned = [detail |-> r.detail]]
    /\ UNCHANGED <<terminalVars, next_cid, host_ports, docker_available, launchVars,
                   shutdownVars>>

GetServiceInfo(service_id) ==
    /\ Serving
    /\ \E faults \in LifecycleFaultSets({"reap", "get"}) :
         \E r \in {get_service_info(services, containers, service_id, faults)} :
             /\ services' = r.services
             /\ registry_file' = SavedAfter(services')
             /\ result' = [NoResult EXCEPT !.op = "get_service_info", !.kind = r.kind,
                              !.key = service_id, !.faults = faults,
                              !.returned = [detail |-> r.detail]]
    /\ UNCHANGED <<terminalVars, runtimeVars, launchVars, shutdownVars>>

ListRunningServices(template) ==
    /\ Serving
    /\ \E faults \in LifecycleFaultSets({"reap"}) :
         \E r \in {list_running_services(services, containers, template, faults)} :
             /\ services' = r.services
             /\ registry_file' = SavedAfter(services')
             /\ result' = [NoResult EXCEPT !.op = "list_running_services",
                              !.kind = r.kind, !.template = template, !.faults = faults,
                              !.returned = [names |-> r.names]]
    /\ UNCHANGED <<terminalVars, runtimeVars, launchVars, shutdownVars>>

CleanupReport(r) ==
    [services_cleaned |-> r.services_cleaned, containers_removed |-> r.containers_removed,
     errors |-> r.errors, registry_cleared |-> r.registry_cleared]

AutoCleanupServices ==
    /\ Serving
    /\ \E faults \in UpTo(({"reap"} \X Keys(services))
                             \cup ({"remove"} \X ContainerNames(containers))
                             \cup {<<"list", NoName>>}, MaxFaults) :
         \E r \in {auto_cleanup_services(services, containers, faults)} :
             /\ services' = r.services
             /\ registry_file' = SavedAfter(services')
             /\ containers' = r.containers
             /\ result' = [NoResult EXCEPT !.op = "auto_cleanup_services",
                              !.kind = r.kind, !.calls = r.calls, !.faults = faults,
                              !.returned = CleanupReport(r)]
    /\ UNCHANGED <<terminalVars, next_cid, host_ports, docker_available, launchVars,
                   shutdownVars>>

ForceCleanupAllServices ==
    /\ Serving
    /\ \E faults \in UpTo(({"get", "stop", "remove"} \X Keys(services))
                             \cup (OrphanSites \X ContainerNames(containers))
                             \cup {<<"orphan_list", NoName>>}, MaxFaults) :
         \E r \in {force_cleanup_all_services(services, containers, faults)} :
             /\ services' = r.services
             /\ registry_file' = SavedAfter(services')
             /\ containers' = r.containers
             /\ result' = [NoResult EXCEPT !.op = "force_cleanup_all_services",
                              !.kind = r.kind, !.calls = r.calls, !.faults = faults,
                              !.returned = CleanupReport(r)]
    /\ UNCHANGED <<terminalVars, next_cid, host_ports, docker_available, launchVars,
                   shutdownVars>>

GetCleanupStatus ==
    /\ Serving
    /\ \E faults \in LifecycleFaultSets({"get"}) :
         \E r \in {get_cleanup_status(services, containers, faults)} :
             result' = [NoResult EXCEPT !.op = "get_cleanup_status", !.kind = r.kind,
                           !.total = r.registered_services, !.faults = faults,
                           !.returned = r]
    /\ UNCHANGED <<terminalVars, registryVars, runtimeVars, launchVars, shutdownVars>>

\* startup_container_recovery() while the program serves.
RecoveryWhileServing == Serving /\ Recovery

\* get_free_port() with its default start_port
GetFreePortWhileServing == Serving /\ GetFreePort(8000)

NextLifecycle ==
    \/ \E service_id \in LifecycleIds, remove_container \in BOOLEAN :
         RemoveService(service_id, remove_container)
    \/ \E service_id \in LifecycleIds : StopService(service_id)
    \/ \E service_id \in LifecycleIds : GetServiceInfo(service_id)
    \/ \E template \in {"", "buckets"} : ListRunningServices(template)
    \/ RecoveryWhileServing
    \/ GetFreePortWhileServing
    \/ \E c \in DOMAIN containers : ContainerExits(c)

SpecLifecycle == InitLifecycle /\ [][NextLifecycle]_vars

\* SpecRemove: services are stopped and removed while containers exit and
\* are paused.
NextRemove ==
    \/ \E service_id \in LifecycleIds, remove_container \in BOOLEAN :
         RemoveService(service_id, remove_container)
    \/ \E service_id \in LifecycleIds : StopService(service_id)
    \/ \E c \in DOMAIN containers : ContainerExits(c)
    \/ \E c \in DOMAIN containers : ContainerPaused(c)

SpecRemove == InitLifecycle /\ [][NextRemove]_vars

\* SpecCleanup: reconciliation, the cleanup operations and graceful_shutdown,
\* called by the program or by a signal, on a process that found the runtime
\* at import or did not.
NextCleanup ==
    \/ AutoCleanupServices
    \/ ForceCleanupAllServices
    \/ GetCleanupStatus
    \/ RecoveryWhileServing
    \/ \E kind \in {"SIGINT", "SIGTERM"} : Signal(kind)
    \/ ExplicitCall
    \/ ShutdownGuard
    \/ ShutdownSet
    \/ ShutdownServices
    \/ ShutdownOrphans
    \/ ShutdownLeave
    \/ \E c \in DOMAIN containers : ContainerExits(c)

SpecCleanup == InitLifecycle /\ [][NextCleanup]_vars

\* The registry, its file and the runtime are as they were.
NothingChanged ==
    /\ services' = services
    /\ registry_file' = registry_file
    /\ containers' = containers

\* C34: on a process that did not find the runtime, startup_container_recovery,
\* auto_cleanup_services, force_cleanup_all_services and get_cleanup_status
\* each return the structured "not available" error, graceful_shutdown
\* returns to its caller (no SystemExit), and none of them changes the
\* registry.
C34_UnavailableIsStructured ==
    [][~docker_available =>
          /\ result'.op \in {"recovery", "auto_cleanup_services",
                             "force_cleanup_all_services", "get_cleanup_status"} =>
                result'.kind = "unavailable" /\ NothingChanged
          /\ result'.op = "shutdown" =>
                /\ phase' = phase
                /\ result'.kind = "set" => stack' = Pop
                /\ NothingChanged]_vars

\* Without the runtime, graceful_shutdown went past its guard and returned,
\* and the registry still has its entries.
C34_Witness ==
    /\ ~docker_available
    /\ result.op = "shutdown"
    /\ result.kind = "set"
    /\ called
    /\ stack = <<>>
    /\ phase = "serving"
    /\ services # <<>>

\* C35: when a runtime query fails with an error other than not-found,
\* startup_container_recovery, list_running_services, stop_service,
\* get_service_info and get_free_port return a structured result: no error
\* leaves the call.
C35_NoErrorEscapes ==
    [][result'.op \in {"recovery", "list_running_services", "stop_service",
                       "get_service_info", "get_free_port"} =>
          result'.kind # "raised"]_vars

\* C40: remove_service of a registered service_id unregisters that service
\* and nothing else and reports service_removed, also when stopping or
\* removing the container raised (container_error); of an absent service_id
\* it returns an error and changes nothing.
C40_RemoveAlwaysUnregisters ==
    [][result'.op = "remove_service" =>
          IF result'.key \in Keys(services)
          THEN /\ result'.kind = "results"
               /\ result'.returned.service_removed
               /\ services' = unregister_service(services, result'.key)
               /\ result'.key \notin Keys(services')
               /\ registry_file' = json_dump(services')
          ELSE /\ result'.kind = "error"
               /\ NothingChanged]_vars

\* A service was removed from the registry although removing its container
\* raised: the container is still in the runtime.
C40_Witness ==
    /\ result.op = "remove_service"
    /\ result.kind = "results"
    /\ result.returned.container_error
    /\ result.returned.service_removed
    /\ ~result.returned.container_removed
    /\ result.key \notin Keys(services)
    /\ \E c \in DOMAIN containers : containers[c].name = result.key

\* ------------------------------------------------------------------------
\* The HTTP API (server.py): verify_orchestrator_token and the endpoints
\* that launch, start, stop and recover containers
\* ------------------------------------------------------------------------
\* An Authorization header: absent, or its value as the words between
\* spaces ("" has none).
Header(value) == [present |-> TRUE, value |-> value]
NoHeader == [present |-> FALSE, value |-> <<>>]

\* f"Bearer {expected_token}"
Bearer(token) == <<"Bearer", token>>

\* ORCHESTRATOR_TOKEN in the environment of the process: unset, or set.
Environs == {[set |-> FALSE, value |-> ""], [set |-> TRUE, value |-> "s3cret"]}

\* os.getenv(name, default)
getenv(environ, default) == IF environ.set THEN environ.value ELSE default

\* expected_token = os.getenv("ORCHESTRATOR_TOKEN", "default-secret-token")
expected_token(environ) == getenv(environ, "default-secret-token")

Headers ==
    {NoHeader, Header(<<>>), Header(Bearer("default-secret-token")),
     Header(Bearer("s3cret")), Header(Bearer("invalid-token")),
     Header(<<"default-secret-token">>), Header(<<"bearer", "s3cret">>)}

\* The status the dependency answers with (200: it returns True).
verify_orchestrator_token_header_only(authorization, environ) ==
    IF ~authorization.present \/ authorization.value = <<>> THEN 401 ELSE 200

verify_orchestrator_token(authorization, environ) ==
    IF ~authorization.present \/ authorization.value = <<>> THEN 401
    ELSE IF authorization.value # Bearer(expected_token(environ)) THEN 403
    ELSE 200

\* docker_service.launch_container(config), for a config without ports:
\* client.containers.run(...); a DockerException (the name is taken, the
\* runtime fails) becomes {"error": ...}.
launch_container(rt, cid, name, faults) ==
    IF ~docker_available
    THEN [containers |-> rt, next_cid |-> cid, kind |-> "error"]
    ELSE IF <<"run", name>> \in faults \/ ByName(rt, name) # {} \/ cid > MaxContainers
    THEN [containers |-> rt, next_cid |-> cid, kind |-> "error"]
    ELSE [containers |-> AddContainer(rt, cid, name, "running", None),
          next_cid |-> cid + 1, kind |-> "container"]

\* docker_service.start_container(container_id)
start_container(rt, container_id, faults) ==
    IF ~docker_available
    THEN [containers |-> rt, kind |-> "error", detail |-> "unavailable"]
    ELSE IF <<"get", NoName>> \in faults
    THEN [containers |-> rt, kind |-> "error", detail |-> "runtime"]
    ELSE IF ~FoundById(rt, container_id)
    THEN [containers |-> rt, kind |-> "error", detail |-> "not_found"]
    ELSE IF rt[container_id].status = "running"
    THEN [containers |-> rt, kind |-> "message", detail |-> "already_running"]
    ELSE IF <<"start", NoName>> \in faults
    THEN [containers |-> rt, kind |-> "error", detail |-> "runtime"]
    ELSE [containers |-> [rt EXCEPT ![container_id].status = "running"],
          kind |-> "message", detail |-> "started"]

\* The routes of the generic container operations that change something,
\* each with Depends(verify_orchestrator_token), and the path or body
\* parameter of each.
Endpoints == {"launch", "start", "stop", "recover"}

ContainerIds == 1..MaxContainers

ConfigNames == {<<"web">>}

Arguments(endpoint) ==
    CASE endpoint = "launch" -> ConfigNames
      [] endpoint \in {"start", "stop"} -> ContainerIds
      [] OTHER -> {NoName}

\* A request the dependency let through; its endpoint has not run yet.
Pending == result.op = "http" /\ result.kind = "authorized"

\* A request arrives: FastAPI resolves the dependency before it calls the
\* endpoint; the HTTPException it raises is the response.
HttpRequest(endpoint, argument, authorization, environ) ==
    /\ ~Pending
    /\ \E status_code \in {verify_orchestrator_token(authorization, environ)} :
         result' = [NoResult EXCEPT
                       !.op = "http",
                       !.kind = IF status_code = 200 THEN "authorized" ELSE "rejected",
                       !.total = status_code,
                       !.returned = [endpoint |-> endpoint, argument |-> argument,
                                     authorization |-> authorization,
                                     environ |-> environ]]
    /\ UNCHANGED <<terminalVars, registryVars, runtimeVars, launchVars, shutdownVars>>

\* POST /launch
launch ==
    /\ Pending
    /\ result.returned.endpoint = "launch"
    /\ \E faults \in UpTo({"run"} \X ConfigNames, MaxFaults) :
         \E r \in {launch_container(containers, next_cid, result.returned.argument,
                                    faults)} :
             /\ containers' = r.containers
             /\ next_cid' = r.next_cid
             /\ result' = [NoResult EXCEPT !.op = "launch_container", !.kind = r.kind,
                              !.faults = faults]
    /\ UNCHANGED <<terminalVars, registryVars, host_ports, docker_available, launchVars,
                   shutdownVars>>

\* POST /containers/{container_id}/start
start_existing_container ==
    /\ Pending
    /\ result.returned.endpoint = "start"
    /\ \E faults \in UpTo({"get", "start"} \X {NoName}, MaxFaults) :
         \E r \in {start_container(containers, result.returned.argument, faults)} :
             /\ containers' = r.containers
             /\ result' = [NoResult EXCEPT !.op = "start_container", !.kind = r.kind,
                              !.value = result.returned.argument, !.faults = faults]
    /\ UNCHANGED <<terminalVars, registryVars, next_cid, host_ports, docker_available,
                   launchVars, shutdownVars>>

\* POST /containers/{container_id}/stop
stop_existing_container ==
    /\ Pending
    /\ result.returned.endpoint = "stop"
    /\ \E faults \in UpTo({"get", "stop"} \X {NoName}, MaxFaults) :
         \E r \in {stop_container(containers, result.returned.argument, NoName,
                                  faults)} :
             /\ containers' = r.containers
             /\ result' = [NoResult EXCEPT !.op = "stop_container", !.kind = r.kind,
                              !.value = result.returned.argument, !.faults = faults]
    /\ UNCHANGED <<terminalVars, registryVars, next_cid, host_ports, docker_available,
                   launchVars, shutdownVars>>

\* POST /containers/recover
recover_containers ==
    /\ Pending
    /\ result.returned.endpoint = "recover"
    /\ Recovery

\* SpecHttp: requests with and without the orchestrator token, one at a
\* time, on a process that has one service.
InitHttp ==
    /\ \E s \in {"running", "exited"} :
         /\ services = SituationEntry("db", 1, s)
         /\ containers = SituationContainer("db", 1, s)
    /\ registry_file = json_dump(services)
    /\ next_cid = 2
    /\ host_ports = {}
    /\ docker_available = TRUE
    /\ result = NoResult
    /\ session = NoSession
    /\ assigned = <<>>
    /\ threads = <<>>
    /\ called = FALSE
    /\ stack = <<>>
    /\ phase = "serving"
    /\ invocations = 0
    /\ teardowns = 0

NextHttp ==
    \/ \E endpoint \in Endpoints, authorization \in Headers, environ \in Environs :
         \E argument \in Arguments(endpoint) :
             HttpRequest(endpoint, argument, authorization, environ)
    \/ launch
    \/ start_existing_container
    \/ stop_existing_container
    \/ recover_containers

SpecHttp == InitHttp /\ [][NextHttp]_vars

\* The operations behind the endpoints.
ContainerOperations ==
    {"launch_container", "start_container", "stop_container", "recovery"}

\* The header carries a token, and it is not the orchestrator's.
WrongToken(authorization, environ) ==
    /\ authorization.present
    /\ Len(authorization.value) = 2
    /\ authorization.value[1] = "Bearer"
    /\ authorization.value[2] # expected_token(environ)

\* C36: a launch, start, stop or recover request without an Authorization
\* header is answered 401 and one with a token other than the orchestrator
\* token 403, neither changes the registry or the runtime, and a container
\* operation is invoked only for a request that carried the orchestrator
\* token.
C36_CheckPrecedesMutation ==
    [][/\ (result'.op = "http" /\ ~result'.returned.authorization.present) =>
             /\ result'.kind = "rejected"
             /\ result'.total = 401
             /\ NothingChanged
       /\ (/\ result'.op = "http"
           /\ WrongToken(result'.returned.authorization, result'.returned.environ)) =>
             /\ result'.kind = "rejected"
             /\ result'.total = 403
             /\ NothingChanged
       /\ result'.op \in ContainerOperations =>
             /\ result.op = "http"
             /\ result.returned.authorization.value =
                    Bearer(expected_token(result.returned.environ))]_vars

\* A stop request with another token was answered 403 while the container
\* runs.
C36_Witness ==
    /\ result.op = "http"
    /\ result.kind = "rejected"
    /\ result.total = 403
    /\ result.returned.endpoint = "stop"
    /\ WrongToken(result.returned.authorization, result.returned.environ)
    /\ result.returned.argument \in DOMAIN containers
    /\ containers[result.returned.argument].status = "running"

\* ------------------------------------------------------------------------
\* SpecIter: cleanup_dead_services, one step of its loop at a time, while
\* other requests register and unregister services.  The loop iterates
\* self.services.items(), the dict itself; the endpoints run in the
\* server's thread pool.
\* ------------------------------------------------------------------------
\* The entries array of the dict: the keys in insertion order, a deleted key
\* leaving its slot behind until an insertion resizes the table.
Deleted == <<"deleted">>

Ids(svcs) == [i \in DOMAIN svcs |-> svcs[i].service_id]

\* ma_used: the number of keys in the dict
Used(slots) == Len(SelectSeq(slots, LAMBDA k : k # Deleted))

\* A resize copies the live entries to a new array.
Compacted(slots) == SelectSeq(slots, LAMBDA k : k # Deleted)

NoIteration ==
    [pc |-> "idle", slots |-> <<>>, di_pos |-> 1, di_used |-> 0, len |-> 0,
     dead_services |-> <<>>, visited |-> <<>>, throughout |-> {}, mutations |-> 0]

\* iter(d.items())
NewIteration(svcs) ==
    [NoIteration EXCEPT !.pc = "loop", !.slots = Ids(svcs), !.di_used = Len(svcs),
                        !.len = Len(svcs), !.throughout = Keys(svcs)]

\* next() of the iterator: RuntimeError when the dict has another size than
\* when the iterator was made, or has an entry left after `len` were given;
\* else the first live slot from di_pos on.
dictiter_next(it) ==
    LET live == {i \in it.di_pos..Len(it.slots) : it.slots[i] # Deleted}
    IN  IF Used(it.slots) # it.di_used
        THEN [outcome |-> "RuntimeError", key |-> NoName, di_pos |-> it.di_pos]
        ELSE IF live = {}
        THEN [outcome |-> "StopIteration", key |-> NoName, di_pos |-> it.di_pos]
        ELSE IF it.len = 0
        THEN [outcome |-> "RuntimeError", key |-> NoName, di_pos |-> it.di_pos]
        ELSE LET i == CHOOSE j \in live : \A k \in live : j <= k
             IN  [outcome |-> "item", key |-> it.slots[i], di_pos |-> i + 1]

InitIter ==
    /\ \E s1 \in LifecycleSituations, s2 \in LifecycleSituations :
         /\ services = SituationEntry("buckets", 1, s1) \o SituationEntry("db", 2, s2)
         /\ containers = SituationContainer("buckets", 1, s1)
                            @@ SituationContainer("db", 2, s2)
    /\ registry_file = IF services = <<>> THEN NoFile ELSE json_dump(services)
    /\ next_cid = 5
    /\ host_ports = {}
    /\ docker_available = TRUE
    /\ result = NoResult
    /\ session = NoSession
    /\ assigned = <<>>
    /\ threads = <<NoIteration>>
    /\ called = FALSE
    /\ stack = <<>>
    /\ phase = "serving"
    /\ invocations = 0
    /\ teardowns = 0

IterFrame ==
    UNCHANGED <<terminalVars, runtimeVars, assigned, shutdownVars>>

\* cleanup_dead_services(): `for service_id, service in self.services.items()`.
ReapBegins ==
    /\ threads[1].pc # "loop"
    /\ threads' = <<NewIteration(services)>>
    /\ result' = [NoResult EXCEPT !.op = "reap", !.kind = "begin"]
    /\ UNCHANGED <<registryVars>>
    /\ IterFrame

\* One turn of the loop: the next item, and the body for it.
ReapNext ==
    /\ threads[1].pc = "loop"
    /\ \E it \in {threads[1]} :
        \E next \in {dictiter_next(it)} :
          CASE next.outcome = "RuntimeError" ->
                 /\ threads' = <<[it EXCEPT !.pc = "raised"]>>
                 /\ result' = [NoResult EXCEPT !.op = "reap", !.kind = "raised"]
                 /\ UNCHANGED registryVars
            [] next.outcome = "StopIteration" ->
                 /\ threads' = <<[it EXCEPT !.pc = "done"]>>
                 /\ services' = UnregisterAll(services, it.dead_services,
                                              Len(it.dead_services))
                 /\ registry_file' = SavedAfter(services')
                 /\ result' = [NoResult EXCEPT !.op = "reap", !.kind = "completed",
                                  !.total = Len(it.dead_services)]
            [] next.outcome = "item" ->
                 \E container_id \in {get_service(services, next.key).container_id} :
                   /\ threads' =
                        <<[it EXCEPT
                             !.di_pos = next.di_pos,
                             !.len = @ - 1,
                             !.visited = Append(@, next.key),
                             !.dead_services =
                                 IF Truthy(container_id)
                                    /\ ~FoundById(containers, container_id)
                                 THEN Append(@, next.key) ELSE @]>>
                   /\ services' =
                        IF Truthy(container_id) /\ FoundById(containers, container_id)
                        THEN update_service(services, next.key,
                                            [status |-> containers[container_id].status])
                        ELSE services
                   /\ registry_file' = SavedAfter(services')
                   /\ result' = [NoResult EXCEPT !.op = "reap", !.kind = "item",
                                    !.key = next.key]
    /\ IterFrame

\* The services other requests register during the iteration.
NewIds == {InstanceName("buckets", 2)}

\* register_service of a new service by another request, between two
\* turns of the loop; the insertion resizes the table or does not.
ConcurrentRegister(service_id, resize) ==
    /\ threads[1].pc = "loop"
    /\ threads[1].mutations < MaxMutations
    /\ service_id \notin Keys(services)
    /\ services' = register_service(services, service_id, "buckets", service_id,
                                    base_port_preference("buckets"), 2, None)
    /\ registry_file' = SavedAfter(services')
    /\ threads' = <<[threads[1] EXCEPT
                        !.slots = Append(IF resize THEN Compacted(@) ELSE @, service_id),
                        !.mutations = @ + 1]>>
    /\ result' = [NoResult EXCEPT !.op = "register", !.key = service_id]
    /\ IterFrame

\* unregister_service by another request, between two turns of the loop.
ConcurrentUnregister(service_id) ==
    /\ threads[1].pc = "loop"
    /\ threads[1].mutations < MaxMutations
    /\ service_id \in Keys(services)
    /\ services' = unregister_service(services, service_id)
    /\ registry_file' = SavedAfter(services')
    /\ threads' = <<[threads[1] EXCEPT
                        !.slots = [i \in DOMAIN @ |->
                                      IF @[i] = service_id THEN Deleted ELSE @[i]],
                        !.throughout = @ \ {service_id},
                        !.mutations = @ + 1]>>
    /\ result' = [NoResult EXCEPT !.op = "unregister", !.key = service_id]
    /\ IterFrame

NextIter ==
    \/ ReapBegins
    \/ ReapNext
    \/ \E service_id \in NewIds, resize \in BOOLEAN :
         ConcurrentRegister(service_id, resize)
    \/ \E service_id \in Keys(services) : ConcurrentUnregister(service_id)

SpecIter == InitIter /\ [][NextIter]_vars

\* C37: a register or unregister by a concurrent request during the
\* iteration of cleanup_dead_services cannot make the iteration fail, and
\* the iteration visits every entry that was in the registry from its
\* beginning to its end.
C37_IterationUnaffected ==
    /\ threads[1].pc # "raised"
    /\ threads[1].pc = "done" => threads[1].throughout \subseteq Range(threads[1].visited)

\* ------------------------------------------------------------------------
\* SpecSave: register_service, update_service and unregister_service called
\* by concurrent requests, each call one step at a time: the change of
\* self.services, then _save_registry: open(file, "w"), json.dump into the
\* file object, and the close that writes the buffer out.  No lock is taken.
\* ------------------------------------------------------------------------
SaveIds == {InstanceName("buckets", 1), InstanceName("db", 1)}

IdleThread == [pc |-> "idle", buffer |-> NoFile]

InitSave ==
    /\ services = <<>>
    /\ registry_file = NoFile
    /\ containers = <<>>
    /\ next_cid = 1
    /\ host_ports = {}
    /\ docker_available = TRUE
    /\ result = NoResult
    /\ session = NoSession
    /\ assigned = <<>>
    /\ threads = [t \in Threads |-> IdleThread]
    /\ called = FALSE
    /\ stack = <<>>
    /\ phase = "serving"
    /\ invocations = 0
    /\ teardowns = 0

SaveFrame == UNCHANGED <<terminalVars, runtimeVars, assigned, shutdownVars>>

\* The first statements of a registry call by thread t: self.services
\* becomes `after`; the call goes on to _save_registry when `saves`.
CallBegins(t, op, service_id, after, saves) ==
    /\ threads[t].pc = "idle"
    /\ services' = after
    /\ threads' = [threads EXCEPT ![t].pc = IF saves THEN "open" ELSE "idle"]
    /\ result' = [NoResult EXCEPT !.op = op, !.kind = "called", !.key = service_id,
                                  !.value = t]
    /\ UNCHANGED registry_file
    /\ SaveFrame

SaveRegister(t, service_id) ==
    CallBegins(t, "register", service_id,
               register_service(services, service_id, service_id[1], service_id,
                                base_port_preference(service_id[1]), 1, None),
               TRUE)

SaveUnregister(t, service_id) ==
    CallBegins(t, "unregister", service_id, unregister_service(services, service_id),
               service_id \in Keys(services))

SaveUpdate(t, service_id, kwargs) ==
    CallBegins(t, "update", service_id, update_service(services, service_id, kwargs),
               update_service_ok(services, service_id))

\* open(self.registry_file, "w") leaves an empty file.
SaveOpens(t) ==
    /\ threads[t].pc = "open"
    /\ registry_file' = PartialWrite(services, 0)
    /\ threads' = [threads EXCEPT ![t].pc = "dump"]
    /\ result' = [NoResult EXCEPT !.op = "save", !.kind = "open", !.value = t]
    /\ UNCHANGED services
    /\ SaveFrame

\* json.dump(self.services, f, indent=2): the document of the registry as
\* it is now goes to the buffer of the file object.
SaveDumps(t) ==
    /\ threads[t].pc = "dump"
    /\ threads' = [threads EXCEPT ![t].pc = "close", ![t].buffer = json_dump(services)]
    /\ result' = [NoResult EXCEPT !.op = "save", !.kind = "dump", !.value = t]
    /\ UNCHANGED registryVars
    /\ SaveFrame

\* The buffer is written from the start of the file; what the file has
\* beyond the end of the buffer stays (a document of more entries is the
\* longer one).
WrittenOver(file, buffer) ==
    IF file.kind = "text" /\ Len(file.entries) > Len(buffer.entries)
    THEN [buffer EXCEPT !.complete = FALSE]
    ELSE buffer

\* The end of the `with` block: the file object is closed and the call
\* returns.
SaveCloses(t) ==
    /\ threads[t].pc = "close"
    /\ registry_file' = WrittenOver(registry_file, threads[t].buffer)
    /\ threads' = [threads EXCEPT ![t] = IdleThread]
    /\ result' = [NoResult EXCEPT !.op = "save", !.kind = "returned", !.value = t]
    /\ UNCHANGED services
    /\ SaveFrame

NextSave ==
    \/ \E t \in Threads, service_id \in SaveIds : SaveRegister(t, service_id)
    \/ \E t \in Threads, service_id \in SaveIds : SaveUnregister(t, service_id)
    \/ \E t \in Threads, service_id \in SaveIds :
         SaveUpdate(t, service_id, [status |-> "stopped"])
    \/ \E t \in Threads : SaveOpens(t)
    \/ \E t \in Threads : SaveDumps(t)
    \/ \E t \in Threads : SaveCloses(t)

SpecSave == InitSave /\ [][NextSave]_vars

\* C38: whatever the interleaving of concurrent register_service,
\* update_service and unregister_service calls, once all of them have
\* returned the registry file holds the complete document of the registry
\* in memory.
C38_SavedAfterConcurrentCalls ==
    (\A t \in Threads : threads[t].pc = "idle") =>
        \/ registry_file = json_dump(services)
        \/ registry_file = NoFile


====
